---- MODULE Spec2Model ----
(***************************************************************************)
(* Model of the Marvel Champions form automation:                          *)
(*   - chunkArray (src/src/utils.ts)                                       *)
(*   - filterPlays, processPlaysInParallel, processPlaysSequentially       *)
(*     (src/src/parallel-processor.ts)                                     *)
(*   - FormSubmitter.processPlaysChunk (form-submitter.ts)                 *)
(*   - main (src/src/index.ts)                                             *)
(*                                                                         *)
(* Specifications:                                                         *)
(*   SpecChunk  : chunkArray applied to bounded arrays and chunk counts    *)
(*   SpecFilter : filterPlays applied to bounded record arrays             *)
(*   SpecPar    : processPlaysInParallel with interleaved sessions         *)
(*   SpecEquiv  : processPlaysSequentially beside a single session         *)
(*   SpecMain   : main's argument parsing and the sizing of the pool       *)
(*   SpecNav    : one call of FormSubmitter.submitPlay, page by page       *)
(*   SpecUtil   : parseDifficulty and mapSpiderWomanAspects on bounded     *)
(*                strings                                                  *)
(***************************************************************************)
EXTENDS Integers, Sequences, FiniteSets, TLC

\* ------------------------------------------------------------------ bounds
MaxLen == 7          \* longest array handed to chunkArray in SpecChunk
MaxChunks == 8       \* largest chunk count handed to chunkArray in SpecChunk
NumItems == 2        \* distinct array elements in SpecChunk
MaxInput == 3        \* longest record array handed to filterPlays
MaxPlays == 4        \* most surviving records in SpecPar / SpecEquiv
MaxWorkersArg == 3   \* largest maxWorkers argument in SpecPar
MaxFilePlays == 9    \* most surviving records in SpecMain
MaxCode == 4         \* longest difficulty code in SpecUtil
MaxTokens == 3       \* most words in an aspect string in SpecUtil

\* --------------------------------------------------------------- constants
MAX_CONSECUTIVE_FAILURES == 3
FormHeroSlots == 4
DefaultMaxWorkers == 8
DocumentedMaxWorkers == 8

VARIABLES
  \* SpecChunk
  cArray, cNum, cResult, cpc,
  \* SpecFilter
  fInput, fAll, fStart, fOut, fAgain, fpc,
  \* SpecPar
  plays, maxWorkers, fate, ppc, numWorkers, chunks, workers, browsers, sess,
  results, summary, exitCode,
  \* SpecEquiv (sequential side)
  qpc, qIdx, qSuccess, qFailure, qConsec, qLog, qBrowser,
  \* SpecMain
  args, nFile, mpc, mJsonPath, mStartDate, mMaxWorkers, mUseParallel,
  mExit, mFileRead, mNumWorkers, mChunkSizes, mWorkers, mStatus,
  \* SpecNav
  nPlay, nDryRun, nPage, npc, nI, nMod, nLog, nResult,
  \* SpecUtil
  uTokens, uText, uDifficulty, uAspect, upc

chunkVars == <<cArray, cNum, cResult, cpc>>
filterVars == <<fInput, fAll, fStart, fOut, fAgain, fpc>>
parVars == <<plays, maxWorkers, fate, ppc, numWorkers, chunks, workers, browsers,
             sess, results, summary, exitCode>>
seqVars == <<qpc, qIdx, qSuccess, qFailure, qConsec, qLog, qBrowser>>
mainVars == <<args, nFile, mpc, mJsonPath, mStartDate, mMaxWorkers,
              mUseParallel, mExit, mFileRead, mNumWorkers, mChunkSizes, mWorkers,
              mStatus>>
navVars == <<nPlay, nDryRun, nPage, npc, nI, nMod, nLog, nResult>>
utilVars == <<uTokens, uText, uDifficulty, uAspect, upc>>
vars == <<chunkVars, filterVars, parVars, seqVars, mainVars, navVars, utilVars>>

\* ----------------------------------------------------------------- helpers
Min(a, b) == IF a <= b THEN a ELSE b

\* Math.ceil(a / b) for a >= 0, b > 0
Ceil(a, b) == (a + b - 1) \div b

RECURSIVE Concat(_)
Concat(ss) == IF ss = <<>> THEN <<>> ELSE Head(ss) \o Concat(Tail(ss))

RECURSIVE SeqsUpTo(_, _)
SeqsUpTo(S, n) ==
  IF n = 0 THEN {<<>>}
  ELSE LET shorter == SeqsUpTo(S, n - 1)
       IN shorter \cup {Append(s, x) : s \in {t \in shorter : Len(t) = n - 1}, x \in S}

\* =================================================================
\* chunkArray (utils.ts)
\* =================================================================

\* array.slice(from, to) with 0-based, end-exclusive indices
Slice_EndInclusive(array, from, to) == SubSeq(array, from + 1, Min(to + 1, Len(array)))

Slice(array, from, to) == SubSeq(array, from + 1, Min(to, Len(array)))

\* the for-loop "for (i = 0; i < array.length; i += chunkSize) chunks.push(slice)"
RECURSIVE chunkLoop_DropsTail(_, _, _)
chunkLoop_DropsTail(array, i, chunkSize) ==
  IF i + chunkSize > Len(array) THEN <<>>
  ELSE <<Slice(array, i, i + chunkSize)>> \o chunkLoop_DropsTail(array, i + chunkSize, chunkSize)

RECURSIVE chunkLoop(_, _, _)
chunkLoop(array, i, chunkSize) ==
  IF i >= Len(array) THEN <<>>
  ELSE <<Slice(array, i, i + chunkSize)>> \o chunkLoop(array, i + chunkSize, chunkSize)

\* result: threw = TRUE when the Error is thrown, else chunks holds the value
chunkArray_FloorSize(array, numChunks) ==
  IF numChunks <= 0 THEN [threw |-> TRUE, chunks |-> <<>>]
  ELSE IF numChunks >= Len(array)
       THEN [threw |-> FALSE, chunks |-> [k \in 1..Len(array) |-> <<array[k]>>]]
       ELSE [threw |-> FALSE,
             chunks |-> chunkLoop(array, 0, Len(array) \div numChunks)]

chunkArray(array, numChunks) ==
  IF numChunks <= 0 THEN [threw |-> TRUE, chunks |-> <<>>]
  ELSE IF numChunks >= Len(array)
       THEN [threw |-> FALSE, chunks |-> [k \in 1..Len(array) |-> <<array[k]>>]]
       ELSE [threw |-> FALSE,
             chunks |-> chunkLoop(array, 0, Ceil(Len(array), numChunks))]

\* =================================================================
\* filterPlays (parallel-processor.ts)
\* =================================================================

SCENARIOS_WITHOUT_MODULAR_PAGE == {"Wrecking Crew"}

NoDate == <<>>

Dates == {<<2025, 12, 31>>, <<2026, 1, 1>>, <<2026, 1, 15>>}

\* new Date("YYYY-MM-DD").getTime(), in whole days since 1970-01-01 (UTC)
DateTime(date) ==
  LET y == IF date[2] <= 2 THEN date[1] - 1 ELSE date[1]
      era == y \div 400
      yoe == y - era * 400
      mp == (date[2] + 9) % 12
      doy == (153 * mp + 2) \div 5 + date[3] - 1
      doe == yoe * 365 + yoe \div 4 - yoe \div 100 + doy
  IN era * 146097 + doe - 719468

\* An array object is [ref, items]: ref is its identity, items its contents.
\* Array.prototype.sort with the comparator of filterPlays; the sort is stable
\* and in place (the same array object is returned)
InsertByDate_NoCompare(sorted, play) == Append(sorted, play)

RECURSIVE InsertByDate_TiesFirst(_, _)
InsertByDate_TiesFirst(sorted, play) ==
  IF sorted = <<>> THEN <<play>>
  ELSE IF DateTime(play.Date) - DateTime(sorted[Len(sorted)].Date) <= 0
       THEN Append(InsertByDate_TiesFirst(SubSeq(sorted, 1, Len(sorted) - 1), play),
                   sorted[Len(sorted)])
       ELSE Append(sorted, play)

RECURSIVE InsertByDate(_, _)
InsertByDate(sorted, play) ==
  IF sorted = <<>> THEN <<play>>
  ELSE IF DateTime(play.Date) - DateTime(sorted[Len(sorted)].Date) < 0
       THEN Append(InsertByDate(SubSeq(sorted, 1, Len(sorted) - 1), play), sorted[Len(sorted)])
       ELSE Append(sorted, play)

RECURSIVE SortItemsByDate_Unstable(_)
SortItemsByDate_Unstable(items) ==
  IF items = <<>> THEN <<>>
  ELSE InsertByDate(SortItemsByDate_Unstable(Tail(items)), Head(items))

RECURSIVE SortItemsByDate(_)
SortItemsByDate(items) ==
  IF items = <<>> THEN <<>>
  ELSE InsertByDate(SortItemsByDate(SubSeq(items, 1, Len(items) - 1)), items[Len(items)])

ArraySortByDate(arr) == [ref |-> arr.ref, items |-> SortItemsByDate(arr.items)]

HasBasicAspect(play) == \E h \in 1..Len(play.Heroes) : play.Heroes[h].Aspect = "Basic"

KeepModular(play) ==
  IF play.Villain \in SCENARIOS_WITHOUT_MODULAR_PAGE THEN TRUE
  ELSE IF Len(play.Modular_Sets) = 0 THEN FALSE ELSE TRUE

KeepDate_AfterOnly(play, startDate) == ~(DateTime(play.Date) <= DateTime(startDate))

KeepDate(play, startDate) == ~(DateTime(play.Date) < DateTime(startDate))

\* Array.prototype.filter allocates a new array object (lines 19-25)
FilterAspect(arr) ==
  [ref |-> arr.ref + 1, items |-> SelectSeq(arr.items, LAMBDA p : ~HasBasicAspect(p))]

\* the increments of line 21
CountBasicAspect(arr) ==
  Cardinality({i \in 1..Len(arr.items) : HasBasicAspect(arr.items[i])})

\* lines 29-39
FilterModular(arr) == [ref |-> arr.ref + 1, items |-> SelectSeq(arr.items, KeepModular)]

CountEmptyModular_IgnoresException(arr) ==
  Cardinality({i \in 1..Len(arr.items) : Len(arr.items[i].Modular_Sets) = 0})

\* the increments of line 35
CountEmptyModular(arr) ==
  Cardinality({i \in 1..Len(arr.items) : ~KeepModular(arr.items[i])})

\* lines 45-52
FilterDate(arr, startDate) ==
  [ref |-> arr.ref + 1, items |-> SelectSeq(arr.items, LAMBDA p : KeepDate(p, startDate))]

\* the increments of line 48
CountBeforeDate(arr, startDate) ==
  Cardinality({i \in 1..Len(arr.items) : ~KeepDate(arr.items[i], startDate)})

filterPlays_CountsOnInput(allPlays, startDate) ==
  LET playsWithAspect == FilterAspect(allPlays)
      playsWithModular == FilterModular(playsWithAspect)
      filteredPlays ==
        IF startDate # NoDate THEN FilterDate(playsWithModular, startDate)
        ELSE playsWithModular
      playsToProcess == ArraySortByDate(filteredPlays)
  IN [playsToProcess |-> playsToProcess.items,
      stats |-> [total |-> Len(allPlays.items),
                 skippedBasicAspect |-> CountBasicAspect(allPlays),
                 skippedEmptyModular |-> CountEmptyModular(allPlays),
                 skippedBeforeDate |->
                   IF startDate # NoDate THEN CountBeforeDate(allPlays, startDate)
                   ELSE 0],
      allPlays |-> IF playsToProcess.ref = allPlays.ref THEN playsToProcess.items
                   ELSE allPlays.items]

filterPlays_SortsInputWhenNothingRejected(allPlays, startDate) ==
  LET playsWithAspect == FilterAspect(allPlays)
      playsWithModular == FilterModular(playsWithAspect)
      filteredPlays ==
        IF startDate # NoDate THEN FilterDate(playsWithModular, startDate)
        ELSE playsWithModular
      playsToProcess == ArraySortByDate(filteredPlays)
  IN [playsToProcess |-> playsToProcess.items,
      stats |-> [total |-> Len(allPlays.items),
                 skippedBasicAspect |-> CountBasicAspect(allPlays),
                 skippedEmptyModular |-> CountEmptyModular(playsWithAspect),
                 skippedBeforeDate |->
                   IF startDate # NoDate THEN CountBeforeDate(playsWithModular, startDate)
                   ELSE 0],
      allPlays |-> IF Len(playsToProcess.items) = Len(allPlays.items)
                   THEN playsToProcess.items
                   ELSE allPlays.items]

\* returns the value of filterPlays together with the contents of the caller's
\* array after the call
filterPlays(allPlays, startDate) ==
  LET playsWithAspect == FilterAspect(allPlays)
      playsWithModular == FilterModular(playsWithAspect)
      filteredPlays ==
        IF startDate # NoDate THEN FilterDate(playsWithModular, startDate)
        ELSE playsWithModular
      playsToProcess == ArraySortByDate(filteredPlays)
  IN [playsToProcess |-> playsToProcess.items,
      stats |-> [total |-> Len(allPlays.items),
                 skippedBasicAspect |-> CountBasicAspect(allPlays),
                 skippedEmptyModular |-> CountEmptyModular(playsWithAspect),
                 skippedBeforeDate |->
                   IF startDate # NoDate THEN CountBeforeDate(playsWithModular, startDate)
                   ELSE 0],
      allPlays |-> IF playsToProcess.ref = allPlays.ref THEN playsToProcess.items
                   ELSE allPlays.items]

\* =================================================================
\* FormSubmitter.processPlaysChunk (form-submitter.ts): one session
\* =================================================================

NotExited == -1

\* state of one call of processPlaysChunk; idx is the position of the for-of
\* loop in the chunk, pages counts the pages this session has acquired
NewSession(chunk) ==
  [pc |-> IF Len(chunk) = 0 THEN "returned" ELSE "loop",
   idx |-> 1,
   successCount |-> 0,
   failureCount |-> 0,
   consecutiveFailures |-> 0,
   pages |-> 1,
   result |-> [success |-> 0, failed |-> 0],
   log |-> <<>>]

\* "break" or the normal end of the loop: the pair of line 429
Returned(st) ==
  [st EXCEPT !.pc = "returned",
             !.result = [success |-> st.successCount, failed |-> st.failureCount]]

\* the for-of loop of line 394 stepping over every other record
NextIteration_SkipsOne(st, chunk) ==
  IF st.idx + 2 > Len(chunk) THEN Returned([st EXCEPT !.idx = st.idx + 2])
  ELSE [st EXCEPT !.idx = st.idx + 2, !.pc = "loop"]

\* end of one loop iteration: next play, or fall out of the loop and return
NextIteration(st, chunk) ==
  IF st.idx + 1 > Len(chunk) THEN Returned([st EXCEPT !.idx = st.idx + 1])
  ELSE [st EXCEPT !.idx = st.idx + 1, !.pc = "loop"]

SessionRunning(s) == ppc = "running" /\ s \in DOMAIN sess

\* lines 396-406 and 408-410: the old page is closed (its error swallowed), a
\* new page is acquired and the counter is reset; a failing newPage breaks
Recover_NoReset(s) ==
  /\ SessionRunning(s)
  /\ sess[s].pc = "loop"
  /\ sess[s].consecutiveFailures >= MAX_CONSECUTIVE_FAILURES
  /\ \E newPageOk \in BOOLEAN :
       sess' = [sess EXCEPT ![s] =
                  IF newPageOk
                  THEN [@ EXCEPT !.pages = @ + 1,
                                 !.pc = "recwait",
                                 !.log = Append(@, <<"recover">>)]
                  ELSE Returned([@ EXCEPT !.log = Append(@, <<"recoverFailed">>)])]
  /\ UNCHANGED <<plays, maxWorkers, fate, ppc, numWorkers, chunks, workers, browsers,
                 results, summary, exitCode>>

Recover_NoBreak(s) ==
  /\ SessionRunning(s)
  /\ sess[s].pc = "loop"
  /\ sess[s].consecutiveFailures >= MAX_CONSECUTIVE_FAILURES
  /\ \E newPageOk \in BOOLEAN :
       sess' = [sess EXCEPT ![s] =
                  IF newPageOk
                  THEN [@ EXCEPT !.pages = @ + 1,
                                 !.consecutiveFailures = 0,
                                 !.pc = "recwait",
                                 !.log = Append(@, <<"recover">>)]
                  ELSE [@ EXCEPT !.pc = "submit",
                                 !.log = Append(@, <<"recoverFailed">>)]]
  /\ UNCHANGED <<plays, maxWorkers, fate, ppc, numWorkers, chunks, workers, browsers,
                 results, summary, exitCode>>

Recover(s) ==
  /\ SessionRunning(s)
  /\ sess[s].pc = "loop"
  /\ sess[s].consecutiveFailures >= MAX_CONSECUTIVE_FAILURES
  /\ \E newPageOk \in BOOLEAN :
       sess' = [sess EXCEPT ![s] =
                  IF newPageOk
                  THEN [@ EXCEPT !.pages = @ + 1,
                                 !.consecutiveFailures = 0,
                                 !.pc = "recwait",
                                 !.log = Append(@, <<"recover">>)]
                  ELSE Returned([@ EXCEPT !.log = Append(@, <<"recoverFailed">>)])]
  /\ UNCHANGED <<plays, maxWorkers, fate, ppc, numWorkers, chunks, workers, browsers,
                 results, summary, exitCode>>

\* line 407: the wait after a successful reacquisition, inside the try block;
\* a fault is caught by lines 408-410 (break)
RecoveryWait(s) ==
  /\ SessionRunning(s)
  /\ sess[s].pc = "recwait"
  /\ \E waitOk \in BOOLEAN :
       sess' = [sess EXCEPT ![s] =
                  IF waitOk THEN [@ EXCEPT !.pc = "submit"]
                  ELSE Returned([@ EXCEPT !.log = Append(@, <<"recoverWaitFault">>)])]
  /\ UNCHANGED <<plays, maxWorkers, fate, ppc, numWorkers, chunks, workers, browsers,
                 results, summary, exitCode>>

\* lines 414-417 and 420-422: submitPlay returns true or false (it catches
\* every fault of the traversal), the counters are updated
SubmitPlay_KeepsCountOnSuccess(s) ==
  /\ SessionRunning(s)
  /\ \/ sess[s].pc = "loop" /\ sess[s].consecutiveFailures < MAX_CONSECUTIVE_FAILURES
     \/ sess[s].pc = "submit"
  /\ LET play == chunks[s][sess[s].idx]
         success == fate[play]
     IN sess' = [sess EXCEPT ![s] =
                   IF success
                   THEN [@ EXCEPT !.successCount = @ + 1,
                                  !.pc = "delay",
                                  !.log = Append(@, <<"attempt", play, TRUE>>)]
                   ELSE [@ EXCEPT !.failureCount = @ + 1,
                                  !.consecutiveFailures = @ + 1,
                                  !.pc = "delay",
                                  !.log = Append(@, <<"attempt", play, FALSE>>)]]
  /\ UNCHANGED <<plays, maxWorkers, fate, ppc, numWorkers, chunks, workers, browsers,
                 results, summary, exitCode>>

SubmitPlay(s) ==
  /\ SessionRunning(s)
  /\ \/ sess[s].pc = "loop" /\ sess[s].consecutiveFailures < MAX_CONSECUTIVE_FAILURES
     \/ sess[s].pc = "submit"
  /\ LET play == chunks[s][sess[s].idx]
         success == fate[play]
     IN sess' = [sess EXCEPT ![s] =
                   IF success
                   THEN [@ EXCEPT !.successCount = @ + 1,
                                  !.consecutiveFailures = 0,
                                  !.pc = "delay",
                                  !.log = Append(@, <<"attempt", play, TRUE>>)]
                   ELSE [@ EXCEPT !.failureCount = @ + 1,
                                  !.consecutiveFailures = @ + 1,
                                  !.pc = "delay",
                                  !.log = Append(@, <<"attempt", play, FALSE>>)]]
  /\ UNCHANGED <<plays, maxWorkers, fate, ppc, numWorkers, chunks, workers, browsers,
                 results, summary, exitCode>>

\* lines 419 and 424: page.waitForTimeout outside any try block; a fault
\* rejects the promise returned by processPlaysChunk
Delay(s) ==
  /\ SessionRunning(s)
  /\ sess[s].pc = "delay"
  /\ \E waitOk \in BOOLEAN :
       sess' = [sess EXCEPT ![s] =
                  IF waitOk THEN NextIteration(@, chunks[s])
                  ELSE [@ EXCEPT !.pc = "threw", !.log = Append(@, <<"delayFault">>)]]
  /\ UNCHANGED <<plays, maxWorkers, fate, ppc, numWorkers, chunks, workers, browsers,
                 results, summary, exitCode>>

\* =================================================================
\* processPlaysInParallel (parallel-processor.ts) and main's catch
\* =================================================================

RECURSIVE SumSuccess(_)
SumSuccess(rs) == IF rs = <<>> THEN 0 ELSE Head(rs).success + SumSuccess(Tail(rs))

\* line 143 taking the failed count of the last chunk only
SumFailed_LastOnly(rs) == IF rs = <<>> THEN 0 ELSE rs[Len(rs)].failed

RECURSIVE SumFailed(_)
SumFailed(rs) == IF rs = <<>> THEN 0 ELSE Head(rs).failed + SumFailed(Tail(rs))

\* lines 100-115: number of workers, early return, partition
Prepare ==
  /\ ppc = "prepare"
  /\ numWorkers' = Min(maxWorkers, Len(plays))
  /\ IF numWorkers' = 0
     THEN ppc' = "noplays" /\ UNCHANGED chunks
     ELSE ppc' = "init" /\ chunks' = chunkArray(plays, numWorkers').chunks
  /\ UNCHANGED <<plays, maxWorkers, fate, workers, browsers, sess, results, summary, exitCode>>

\* lines 120-125: one iteration of the initialization loop (launch, newPage);
\* after the last one the chunks are mapped to the workers (lines 131-135)
InitWorker ==
  /\ ppc = "init"
  /\ Len(workers) < numWorkers
  /\ LET id == Len(workers) + 1
     IN \E outcome \in {"ok", "launchFailed", "newPageFailed"} :
          CASE outcome = "ok" ->
                 /\ workers' = Append(workers, id)
                 /\ browsers' = Append(browsers, "open")
                 /\ IF Len(workers') = numWorkers
                    THEN IF Len(chunks) > Len(workers')
                         THEN ppc' = "joinRejected" /\ UNCHANGED sess
                         ELSE /\ ppc' = "running"
                              /\ sess' = [k \in 1..Len(chunks) |-> NewSession(chunks[k])]
                    ELSE UNCHANGED <<ppc, sess>>
            [] outcome = "launchFailed" ->
                 /\ ppc' = "initFailed"
                 /\ UNCHANGED <<workers, browsers, sess>>
            [] outcome = "newPageFailed" ->
                 /\ ppc' = "initFailed"
                 /\ browsers' = Append(browsers, "open")
                 /\ UNCHANGED <<workers, sess>>
  /\ UNCHANGED <<plays, maxWorkers, fate, numWorkers, chunks, results, summary, exitCode>>

\* line 131: Promise.all resolves when every processPlaysChunk has returned
Join ==
  /\ ppc = "running"
  /\ \A s \in DOMAIN sess : sess[s].pc = "returned"
  /\ results' = [k \in DOMAIN sess |-> sess[k].result]
  /\ ppc' = "closing"
  /\ UNCHANGED <<plays, maxWorkers, fate, numWorkers, chunks, workers, browsers, sess,
                 summary, exitCode>>

\* line 131: Promise.all rejects as soon as one processPlaysChunk has thrown
JoinReject ==
  /\ ppc = "running"
  /\ \E s \in DOMAIN sess : sess[s].pc = "threw"
  /\ ppc' = "joinRejected"
  /\ UNCHANGED <<plays, maxWorkers, fate, numWorkers, chunks, workers, browsers, sess,
                 results, summary, exitCode>>

\* lines 139-152: close every worker, aggregate, print the summary
CloseWorkers ==
  /\ ppc = "closing"
  /\ browsers' = [k \in DOMAIN browsers |-> IF k \in DOMAIN workers THEN "closed" ELSE browsers[k]]
  /\ summary' = [processed |-> Len(plays),
                 success |-> SumSuccess(results),
                 failed |-> SumFailed(results)]
  /\ ppc' = "done"
  /\ UNCHANGED <<plays, maxWorkers, fate, numWorkers, chunks, workers, sess, results, exitCode>>

\* index.ts lines 57-60: a rejection of processPlaysInParallel ends the process
MainCatch ==
  /\ ppc \in {"initFailed", "joinRejected"}
  /\ exitCode' = 1
  /\ ppc' = "exited"
  /\ UNCHANGED <<plays, maxWorkers, fate, numWorkers, chunks, workers, browsers, sess,
                 results, summary>>

\* =================================================================
\* processPlaysSequentially (parallel-processor.ts lines 188-225)
\* =================================================================

\* line 196: submitter.initialize() inside the try block
SeqInitialize ==
  /\ qpc = "init"
  /\ \E outcome \in {"ok", "launchFailed", "newPageFailed"} :
       CASE outcome = "ok" ->
              /\ qBrowser' = "open"
              /\ qpc' = IF Len(plays) = 0 THEN "closing" ELSE "loop"
         [] outcome = "launchFailed" ->
              /\ qBrowser' = "none"
              /\ qpc' = "closingThrow"
         [] outcome = "newPageFailed" ->
              /\ qBrowser' = "open"
              /\ qpc' = "closingThrow"
  /\ UNCHANGED <<qIdx, qSuccess, qFailure, qConsec, qLog>>

\* lines 205-208 and 211-213: submitPlay and the counters
SeqSubmitPlay ==
  /\ qpc = "loop"
  /\ LET play == plays[qIdx]
         success == fate[play]
     IN /\ qLog' = Append(qLog, <<"attempt", play, success>>)
        /\ IF success
           THEN qSuccess' = qSuccess + 1 /\ qConsec' = 0 /\ UNCHANGED qFailure
           ELSE qFailure' = qFailure + 1 /\ qConsec' = qConsec + 1 /\ UNCHANGED qSuccess
  /\ qpc' = "delay"
  /\ UNCHANGED <<qIdx, qBrowser>>

\* lines 210 and 215 (a timer, which cannot fault), then the head of the next
\* iteration: lines 198-203 stop the loop at the threshold
SeqDelay ==
  /\ qpc = "delay"
  /\ qIdx' = qIdx + 1
  /\ qpc' = IF qIdx' > Len(plays) \/ qConsec >= MAX_CONSECUTIVE_FAILURES
            THEN "closing" ELSE "loop"
  /\ UNCHANGED <<qSuccess, qFailure, qConsec, qLog, qBrowser>>

\* lines 218-225: finally closes the browser; then the summary or the rethrow
SeqClose ==
  /\ qpc \in {"closing", "closingThrow"}
  /\ qBrowser' = IF qBrowser = "open" THEN "closed" ELSE qBrowser
  /\ qpc' = IF qpc = "closing" THEN "done" ELSE "threw"
  /\ UNCHANGED <<qIdx, qSuccess, qFailure, qConsec, qLog>>

\* =================================================================
\* main (index.ts)
\* =================================================================

Undefined == <<"u", "n", "d", "e", "f", "i", "n", "e", "d">>

ArgSequential == <<"-", "-", "s", "e", "q", "u", "e", "n", "t", "i", "a", "l">>

ArgS == <<"-", "s">>

ArgWorkers == <<"-", "-", "w", "o", "r", "k", "e", "r", "s">>

ArgW == <<"-", "w">>

NaN == [nan |-> TRUE, val |-> 0]

DigitVal == ("0" :> 0) @@ ("1" :> 1) @@ ("2" :> 2) @@ ("3" :> 3) @@ ("4" :> 4) @@
            ("5" :> 5) @@ ("6" :> 6) @@ ("7" :> 7) @@ ("8" :> 8) @@ ("9" :> 9)

\* the digits of tok from position k on, up to the first non-digit
RECURSIVE ParseDigits(_, _, _, _)
ParseDigits(tok, k, acc, seen) ==
  IF k <= Len(tok) /\ tok[k] \in DOMAIN DigitVal
  THEN ParseDigits(tok, k + 1, acc * 10 + DigitVal[tok[k]], TRUE)
  ELSE IF seen THEN [nan |-> FALSE, val |-> acc] ELSE NaN

\* parseInt(tok, 10)
parseInt(tok) ==
  LET signed == Len(tok) > 0 /\ tok[1] \in {"-", "+"}
      r == ParseDigits(tok, IF signed THEN 2 ELSE 1, 0, FALSE)
  IN IF r.nan THEN NaN
     ELSE [nan |-> FALSE, val |-> IF signed /\ tok[1] = "-" THEN 0 - r.val ELSE r.val]

\* args[i] with a 0-based index; undefined past the end
ArgAt(argv, i) == IF i + 1 <= Len(argv) THEN argv[i + 1] ELSE Undefined

StartsWithDash(arg) == Len(arg) > 0 /\ arg[1] = "-"

\* lines 16-31: the argument loop; exit = 1 when line 24 ends the process
RECURSIVE argLoop_NoMinimum(_, _, _)
argLoop_NoMinimum(argv, i, st) ==
  IF i >= Len(argv) THEN st
  ELSE LET arg == ArgAt(argv, i)
       IN IF arg = ArgSequential \/ arg = ArgS
          THEN argLoop_NoMinimum(argv, i + 1, [st EXCEPT !.useParallel = FALSE])
          ELSE IF arg = ArgWorkers \/ arg = ArgW
          THEN LET n == parseInt(ArgAt(argv, i + 1))
               IN IF n.nan
                  THEN [st EXCEPT !.exit = 1]
                  ELSE argLoop_NoMinimum(argv, i + 2, [st EXCEPT !.maxWorkers = n.val])
          ELSE IF i = 0 /\ ~StartsWithDash(arg)
          THEN argLoop_NoMinimum(argv, i + 1, [st EXCEPT !.jsonPath = arg])
          ELSE IF i = 1 /\ ~StartsWithDash(arg)
          THEN argLoop_NoMinimum(argv, i + 1, [st EXCEPT !.startDate = arg])
          ELSE argLoop_NoMinimum(argv, i + 1, st)

RECURSIVE argLoop(_, _, _)
argLoop(argv, i, st) ==
  IF i >= Len(argv) THEN st
  ELSE LET arg == ArgAt(argv, i)
       IN IF arg = ArgSequential \/ arg = ArgS
          THEN argLoop(argv, i + 1, [st EXCEPT !.useParallel = FALSE])
          ELSE IF arg = ArgWorkers \/ arg = ArgW
          THEN LET n == parseInt(ArgAt(argv, i + 1))
               IN IF n.nan \/ n.val < 1
                  THEN [st EXCEPT !.exit = 1]
                  ELSE argLoop(argv, i + 2, [st EXCEPT !.maxWorkers = n.val])
          ELSE IF i = 0 /\ ~StartsWithDash(arg)
          THEN argLoop(argv, i + 1, [st EXCEPT !.jsonPath = arg])
          ELSE IF i = 1 /\ ~StartsWithDash(arg)
          THEN argLoop(argv, i + 1, [st EXCEPT !.startDate = arg])
          ELSE argLoop(argv, i + 1, st)

\* lines 10-13: the defaults
ArgDefaults ==
  [jsonPath |-> Undefined, startDate |-> Undefined, maxWorkers |-> DefaultMaxWorkers,
   useParallel |-> TRUE, exit |-> NotExited]

\* lines 7-31
ParseArgs ==
  /\ mpc = "parse"
  /\ LET st == argLoop(args, 0, ArgDefaults)
     IN /\ mJsonPath' = st.jsonPath
        /\ mStartDate' = st.startDate
        /\ mMaxWorkers' = st.maxWorkers
        /\ mUseParallel' = st.useParallel
        /\ mExit' = st.exit
        /\ mpc' = IF st.exit = NotExited THEN "validate" ELSE "exited"
  /\ UNCHANGED <<args, nFile, mFileRead, mNumWorkers, mChunkSizes, mWorkers, mStatus>>

\* lines 43-56, then the synchronous start of the chosen mode: the file is
\* read and filtered (nFile records survive); in parallel mode lines 100-115 of
\* parallel-processor.ts size the pool and partition the records
Dispatch ==
  /\ mpc = "validate"
  /\ IF mJsonPath = Undefined
     THEN /\ mExit' = 1
          /\ mpc' = "exited"
          /\ UNCHANGED <<mFileRead, mNumWorkers, mChunkSizes>>
     ELSE /\ mFileRead' = TRUE
          /\ UNCHANGED mExit
          /\ IF mUseParallel
             THEN /\ mNumWorkers' = Min(mMaxWorkers, nFile)
                  /\ IF mNumWorkers' = 0
                     THEN mpc' = "done" /\ UNCHANGED mChunkSizes
                     ELSE /\ mpc' = "init"
                          /\ mChunkSizes' =
                               LET cs == chunkArray([k \in 1..nFile |-> k], mNumWorkers').chunks
                               IN [k \in 1..Len(cs) |-> Len(cs[k])]
             ELSE /\ mNumWorkers' = 1
                  /\ mChunkSizes' = <<nFile>>
                  /\ mpc' = "init"
  /\ UNCHANGED <<args, nFile, mJsonPath, mStartDate, mMaxWorkers, mUseParallel,
                 mWorkers, mStatus>>

\* parallel-processor.ts lines 120-125 (parallel) or line 196 (sequential):
\* one browser is launched; after the last one every chunk is started
MainInitWorker ==
  /\ mpc = "init"
  /\ mWorkers < mNumWorkers
  /\ \E ok \in BOOLEAN :
       IF ok
       THEN /\ mWorkers' = mWorkers + 1
            /\ IF mWorkers' = mNumWorkers
               THEN /\ mpc' = "running"
                    /\ mStatus' = [k \in 1..Len(mChunkSizes) |-> "running"]
               ELSE UNCHANGED <<mpc, mStatus>>
       ELSE /\ mpc' = "rejected"
            /\ UNCHANGED <<mWorkers, mStatus>>
  /\ UNCHANGED <<args, nFile, mJsonPath, mStartDate, mMaxWorkers, mUseParallel,
                 mExit, mFileRead, mNumWorkers, mChunkSizes>>

\* one session ends: processPlaysChunk returns its pair, or a fault of the
\* inter-record wait escapes it (form-submitter.ts lines 419, 424, 429); the
\* sequential loop has no such wait
MainSessionEnd(s) ==
  /\ mpc = "running"
  /\ s \in DOMAIN mStatus
  /\ mStatus[s] = "running"
  /\ \E end \in IF mUseParallel THEN {"returned", "threw"} ELSE {"returned"} :
       mStatus' = [mStatus EXCEPT ![s] = end]
  /\ UNCHANGED <<args, nFile, mpc, mJsonPath, mStartDate, mMaxWorkers, mUseParallel,
                 mExit, mFileRead, mNumWorkers, mChunkSizes, mWorkers>>

\* parallel-processor.ts lines 131-152 / 218-225: join, close, summary
MainJoin ==
  /\ mpc = "running"
  /\ \A s \in DOMAIN mStatus : mStatus[s] = "returned"
  /\ mpc' = "done"
  /\ UNCHANGED <<args, nFile, mJsonPath, mStartDate, mMaxWorkers, mUseParallel,
                 mExit, mFileRead, mNumWorkers, mChunkSizes, mWorkers, mStatus>>

\* parallel-processor.ts line 131: Promise.all rejects
MainJoinReject ==
  /\ mpc = "running"
  /\ \E s \in DOMAIN mStatus : mStatus[s] = "threw"
  /\ mpc' = "rejected"
  /\ UNCHANGED <<args, nFile, mJsonPath, mStartDate, mMaxWorkers, mUseParallel,
                 mExit, mFileRead, mNumWorkers, mChunkSizes, mWorkers, mStatus>>

\* index.ts lines 57-60
MainCatchExit ==
  /\ mpc = "rejected"
  /\ mExit' = 1
  /\ mpc' = "exited"
  /\ UNCHANGED <<args, nFile, mJsonPath, mStartDate, mMaxWorkers, mUseParallel,
                 mFileRead, mNumWorkers, mChunkSizes, mWorkers, mStatus>>

\* =================================================================
\* Strings, mapSpiderWomanAspects and parseDifficulty (utils.ts)
\* =================================================================

\* the characters of the strings that occur as Aspect or Difficulty values
Chars ==
  ("Justice" :> <<"J", "u", "s", "t", "i", "c", "e">>) @@
  ("Aggression" :> <<"A", "g", "g", "r", "e", "s", "s", "i", "o", "n">>) @@
  ("Justice & aggression" :>
     <<"J", "u", "s", "t", "i", "c", "e", " ", "&", " ",
       "a", "g", "g", "r", "e", "s", "s", "i", "o", "n">>) @@
  ("S1" :> <<"S", "1">>) @@
  ("S2E2" :> <<"S", "2", "E", "2">>) @@
  ("Heroic" :> <<"H", "e", "r", "o", "i", "c">>)

UpperToLower ==
  ("A" :> "a") @@ ("B" :> "b") @@ ("C" :> "c") @@ ("D" :> "d") @@ ("E" :> "e") @@
  ("F" :> "f") @@ ("G" :> "g") @@ ("H" :> "h") @@ ("I" :> "i") @@ ("J" :> "j") @@
  ("K" :> "k") @@ ("L" :> "l") @@ ("M" :> "m") @@ ("N" :> "n") @@ ("O" :> "o") @@
  ("P" :> "p") @@ ("Q" :> "q") @@ ("R" :> "r") @@ ("S" :> "s") @@ ("T" :> "t") @@
  ("U" :> "u") @@ ("V" :> "v") @@ ("W" :> "w") @@ ("X" :> "x") @@ ("Y" :> "y") @@
  ("Z" :> "z")

\* String.prototype.toLowerCase
ToLowerCase(str) ==
  [k \in 1..Len(str) |-> IF str[k] \in DOMAIN UpperToLower THEN UpperToLower[str[k]] ELSE str[k]]

\* String.prototype.includes
Includes(str, sub) ==
  \E k \in 1..(Len(str) - Len(sub) + 1) : SubSeq(str, k, k + Len(sub) - 1) = sub

KwAggression == <<"a", "g", "g", "r", "e", "s", "s", "i", "o", "n">>

KwJustice == <<"j", "u", "s", "t", "i", "c", "e">>

KwLeadership == <<"l", "e", "a", "d", "e", "r", "s", "h", "i", "p">>

KwProtection == <<"p", "r", "o", "t", "e", "c", "t", "i", "o", "n">>

KwBasic == <<"b", "a", "s", "i", "c">>

KwPool == <<"p", "o", "o", "l">>

\* utils.ts lines 32-51 with the pair of line 43 tested before that of line 42
SpiderWomanLabel_LeadershipFirst(str) ==
  LET aspectLower == ToLowerCase(str)
      hasAggression == Includes(aspectLower, KwAggression)
      hasJustice == Includes(aspectLower, KwJustice)
      hasLeadership == Includes(aspectLower, KwLeadership)
      hasProtection == Includes(aspectLower, KwProtection)
      hasBasic == Includes(aspectLower, KwBasic) \/ Includes(aspectLower, KwPool)
  IN IF hasAggression /\ hasLeadership THEN "Aggression and Leadership"
     ELSE IF hasAggression /\ hasJustice THEN "Aggression and Justice"
     ELSE IF hasAggression /\ hasProtection THEN "Aggression and Protection"
     ELSE IF hasJustice /\ hasLeadership THEN "Justice and Leadership"
     ELSE IF hasJustice /\ hasProtection THEN "Justice and Protection"
     ELSE IF hasLeadership /\ hasProtection THEN "Leadership and Protection"
     ELSE IF hasAggression /\ hasBasic THEN "Aggression and Pool"
     ELSE IF hasJustice /\ hasBasic THEN "Justice and Pool"
     ELSE IF hasLeadership /\ hasBasic THEN "Leadership and Pool"
     ELSE IF hasProtection /\ hasBasic THEN "Pool and Protection"
     ELSE ""

\* utils.ts lines 32-51: the canonical label of the first keyword pair found
\* in the characters of the aspect, "" when line 54 is reached
SpiderWomanLabel(str) ==
  LET aspectLower == ToLowerCase(str)
      hasAggression == Includes(aspectLower, KwAggression)
      hasJustice == Includes(aspectLower, KwJustice)
      hasLeadership == Includes(aspectLower, KwLeadership)
      hasProtection == Includes(aspectLower, KwProtection)
      hasBasic == Includes(aspectLower, KwBasic) \/ Includes(aspectLower, KwPool)
  IN IF hasAggression /\ hasJustice THEN "Aggression and Justice"
     ELSE IF hasAggression /\ hasLeadership THEN "Aggression and Leadership"
     ELSE IF hasAggression /\ hasProtection THEN "Aggression and Protection"
     ELSE IF hasJustice /\ hasLeadership THEN "Justice and Leadership"
     ELSE IF hasJustice /\ hasProtection THEN "Justice and Protection"
     ELSE IF hasLeadership /\ hasProtection THEN "Leadership and Protection"
     ELSE IF hasAggression /\ hasBasic THEN "Aggression and Pool"
     ELSE IF hasJustice /\ hasBasic THEN "Justice and Pool"
     ELSE IF hasLeadership /\ hasBasic THEN "Leadership and Pool"
     ELSE IF hasProtection /\ hasBasic THEN "Pool and Protection"
     ELSE ""

\* utils.ts lines 31-56, for an aspect whose characters are Chars[aspect]
mapSpiderWomanAspects(aspect) ==
  IF SpiderWomanLabel(Chars[aspect]) = "" THEN aspect ELSE SpiderWomanLabel(Chars[aspect])

\* utils.ts lines 31-56 on the characters of any string: what is returned is
\* a canonical label, or (after the warning of line 54) the input itself
mapSpiderWomanAspectsOf(str) ==
  IF SpiderWomanLabel(str) = ""
  THEN [canonical |-> FALSE, label |-> "", text |-> str]
  ELSE [canonical |-> TRUE, label |-> SpiderWomanLabel(str), text |-> <<>>]

\* utils.ts lines 61-91 with each else-if chain tested in the opposite order
parseDifficulty_LowestMarker(difficulty) ==
  IF difficulty = <<"H", "e", "r", "o", "i", "c">>
  THEN [standard |-> "Standard (Core Set)", expert |-> "None", heroic |-> "1", skirmish |-> ""]
  ELSE [standard |->
          IF Includes(difficulty, <<"S", "2">>)
          THEN "Standard II (The Hood scenario pack)"
          ELSE IF Includes(difficulty, <<"S", "3">>)
          THEN "Standard III (Age of Apocalypse campaign box)"
          ELSE "Standard (Core Set)",
        expert |->
          IF Includes(difficulty, <<"E", "1">>) THEN "Expert (Core Set)"
          ELSE IF Includes(difficulty, <<"E", "2">>) THEN "Expert II (The Hood scenario pack)"
          ELSE "None",
        heroic |-> "",
        skirmish |-> ""]

\* utils.ts lines 61-91, on the characters of the difficulty code
parseDifficulty(difficulty) ==
  IF difficulty = <<"H", "e", "r", "o", "i", "c">>
  THEN [standard |-> "Standard (Core Set)", expert |-> "None", heroic |-> "1", skirmish |-> ""]
  ELSE [standard |->
          IF Includes(difficulty, <<"S", "3">>)
          THEN "Standard III (Age of Apocalypse campaign box)"
          ELSE IF Includes(difficulty, <<"S", "2">>)
          THEN "Standard II (The Hood scenario pack)"
          ELSE "Standard (Core Set)",
        expert |->
          IF Includes(difficulty, <<"E", "2">>) THEN "Expert II (The Hood scenario pack)"
          ELSE IF Includes(difficulty, <<"E", "1">>) THEN "Expert (Core Set)"
          ELSE "None",
        heroic |-> "",
        skirmish |-> ""]

\* =================================================================
\* FormSubmitter.submitPlay (form-submitter.ts lines 121-378)
\* =================================================================

HERO_NAME_MAPPINGS ==
  ("Spider Man" :> "Spider-Man (Peter Parker)") @@
  ("Spider-Man" :> "Spider-Man (Peter Parker)") @@
  ("Black Panther" :> "Black Panther (T'Challa)") @@
  ("Miles Morales" :> "Spider-Man (Miles Morales)") @@
  ("Ant Man" :> "Ant-Man") @@
  ("Star Lord" :> "Star-Lord") @@
  ("Ghost Spider" :> "Ghost-Spider") @@
  ("Iron Heart" :> "Ironheart") @@
  ("Sp//der" :> "SP//dr") @@
  ("Spider Ham" :> "Spider-Ham") @@
  ("Spider Woman" :> "Spider-Woman")

VILLAIN_NAME_MAPPINGS ==
  ("The Collector - Infiltrate the Museum" :> "Infiltrate the Museum") @@
  ("The Collector - Escape the Museum" :> "Escape the Museum") @@
  ("The Hood Villain" :> "The Hood") @@
  ("Norman Osborn" :> "Risky Business") @@
  ("Green Goblin" :> "Mutagen Formula") @@
  ("Green Goblin - Mutagen Formula" :> "Mutagen Formula") @@
  ("Green Goblin - Risky Business" :> "Risky Business") @@
  ("Amin Zola" :> "Zola") @@
  ("Magneto Villain" :> "Magneto") @@
  ("Nebula Villain" :> "Nebula") @@
  ("Ronan" :> "Ronan the Accuser") @@
  ("Sinister Six" :> "The Sinister Six") @@
  ("Venom Villain" :> "Venom") @@
  ("Magog" :> "MaGog") @@
  ("Drang" :> "Brotherhood of Badoon")

\* HERO_NAME_MAPPINGS[name] || name
MappedHero(name) == IF name \in DOMAIN HERO_NAME_MAPPINGS THEN HERO_NAME_MAPPINGS[name] ELSE name

\* VILLAIN_NAME_MAPPINGS[name] || name
MappedVillain(name) ==
  IF name \in DOMAIN VILLAIN_NAME_MAPPINGS THEN VILLAIN_NAME_MAPPINGS[name] ELSE name

\* one interaction with the page: what was done (ev), for which participant,
\* question or list position (i, 0 when there is none), with which label
Ev(ev, i, label) == [ev |-> ev, i |-> i, label |-> label]

\* click Next and wait for the page to be ready
ClickNext == Ev("next", 0, "")

\* lines 374-377: the outer catch logs the error and returns false
CatchResult_Rethrows == "threw"

CatchResult == "false"

\* the interactions of one page are performed in order; a fault of any of them
\* is caught by the outer catch, which ends the traversal
Perform(clicks, nextPc) ==
  \E k \in 0..Len(clicks) :
    IF k = Len(clicks)
    THEN /\ nLog' = nLog \o clicks
         /\ npc' = nextPc
         /\ UNCHANGED nResult
    ELSE /\ nLog' = (nLog \o SubSeq(clicks, 1, k)) \o <<Ev("fault", 0, "")>>
         /\ npc' = "done"
         /\ nResult' = CatchResult

\* lines 122-124 and 130-132: the guard on this.page, then the first navigation
\* (goto and page-ready wait); its fault is caught by the inner catch
Navigate_NoRetry ==
  /\ npc = "call"
  /\ IF ~nPage
     THEN /\ nResult' = "threw"
          /\ npc' = "done"
          /\ UNCHANGED nLog
     ELSE Perform(<<Ev("goto", 1, ""), Ev("ready", 1, "")>>, "hero")
  /\ UNCHANGED <<nPlay, nDryRun, nPage, nI, nMod>>

Navigate ==
  /\ npc = "call"
  /\ IF ~nPage
     THEN /\ nResult' = "threw"
          /\ npc' = "done"
          /\ UNCHANGED nLog
     ELSE /\ \E k \in 0..2 :
               LET clicks == <<Ev("goto", 1, ""), Ev("ready", 1, "")>>
               IN IF k = 2
                  THEN /\ nLog' = nLog \o clicks
                       /\ npc' = "hero"
                  ELSE /\ nLog' = (nLog \o SubSeq(clicks, 1, k)) \o <<Ev("navFault", 1, "")>>
                       /\ npc' = "retry"
          /\ UNCHANGED nResult
  /\ UNCHANGED <<nPlay, nDryRun, nPage, nI, nMod>>

\* lines 133-138: the single retry (wait, goto, page-ready wait)
NavigateRetry ==
  /\ npc = "retry"
  /\ Perform(<<Ev("wait", 2, ""), Ev("goto", 2, ""), Ev("ready", 2, "")>>, "hero")
  /\ UNCHANGED <<nPlay, nDryRun, nPage, nI, nMod>>

\* lines 140-157: select the first hero (exact match, else first partial match)
HeroPage ==
  /\ npc = "hero"
  /\ Perform(<<Ev("hero", 1, MappedHero(nPlay.Heroes[1].Hero)), ClickNext>>, "aspect")
  /\ UNCHANGED <<nPlay, nDryRun, nPage, nI, nMod>>

\* line 178
hasMoreHeroes_IgnoresMultiplayer(play) == Len(play.Heroes) > 1

hasMoreHeroes(play) == Len(play.Heroes) > 1 /\ ~play.Multiplayer

\* lines 162-175: the aspect of the first hero
FirstAspectClicks(play) ==
  LET firstHero == play.Heroes[1]
      heroName == MappedHero(firstHero.Hero)
  IN IF heroName = "Adam Warlock" THEN <<>>
     ELSE IF heroName = "Spider-Woman"
     THEN <<Ev("aspect", 1, mapSpiderWomanAspects(firstHero.Aspect))>>
     ELSE <<Ev("aspect", 1, firstHero.Aspect)>>

\* lines 159-189: aspect, "Was there a second Hero?", Next
AspectPage_StartsAtThird ==
  /\ npc = "aspect"
  /\ Perform(FirstAspectClicks(nPlay)
               \o <<Ev("moreHeroes", 2, IF hasMoreHeroes(nPlay) THEN "Yes" ELSE "No"),
                    ClickNext>>,
             IF hasMoreHeroes(nPlay) THEN "extraHero" ELSE "scenario")
  /\ nI' = IF Len(nPlay.Heroes) >= 3 THEN 3 ELSE 2
  /\ UNCHANGED <<nPlay, nDryRun, nPage, nMod>>

AspectPage ==
  /\ npc = "aspect"
  /\ Perform(FirstAspectClicks(nPlay)
               \o <<Ev("moreHeroes", 2, IF hasMoreHeroes(nPlay) THEN "Yes" ELSE "No"),
                    ClickNext>>,
             IF hasMoreHeroes(nPlay) THEN "extraHero" ELSE "scenario")
  /\ nI' = 2
  /\ UNCHANGED <<nPlay, nDryRun, nPage, nMod>>

\* lines 193-210: one iteration of the loop, the hero of participant nI
ExtraHeroPage ==
  /\ npc = "extraHero"
  /\ Perform(<<Ev("hero", nI, MappedHero(nPlay.Heroes[nI].Hero)), ClickNext>>, "extraAspect")
  /\ UNCHANGED <<nPlay, nDryRun, nPage, nI, nMod>>

\* lines 212-231: the aspect of participant nI, the question about a further
\* hero when the page shows it, Next
ExtraAspectPage_AppliesExceptions ==
  /\ npc = "extraAspect"
  /\ \E questionShown \in BOOLEAN :
       LET hasNextHero == nI + 1 <= Len(nPlay.Heroes)
           question == IF nI = 2 THEN 3 ELSE 4
           heroName == MappedHero(nPlay.Heroes[nI].Hero)
       IN Perform((IF heroName = "Adam Warlock" THEN <<>>
                   ELSE IF heroName = "Spider-Woman"
                   THEN <<Ev("aspect", nI, mapSpiderWomanAspects(nPlay.Heroes[nI].Aspect))>>
                   ELSE <<Ev("aspect", nI, nPlay.Heroes[nI].Aspect)>>)
                    \o (IF questionShown
                        THEN <<Ev("moreHeroes", question, IF hasNextHero THEN "Yes" ELSE "No")>>
                        ELSE <<>>)
                    \o <<ClickNext>>,
                  IF hasNextHero THEN "extraHero" ELSE "scenario")
  /\ nI' = nI + 1
  /\ UNCHANGED <<nPlay, nDryRun, nPage, nMod>>

ExtraAspectPage ==
  /\ npc = "extraAspect"
  /\ \E questionShown \in BOOLEAN :
       LET hasNextHero == nI + 1 <= Len(nPlay.Heroes)
           question == IF nI = 2 THEN 3 ELSE 4
       IN Perform(<<Ev("aspect", nI, nPlay.Heroes[nI].Aspect)>>
                    \o (IF questionShown
                        THEN <<Ev("moreHeroes", question, IF hasNextHero THEN "Yes" ELSE "No")>>
                        ELSE <<>>)
                    \o <<ClickNext>>,
                  IF hasNextHero THEN "extraHero" ELSE "scenario")
  /\ nI' = nI + 1
  /\ UNCHANGED <<nPlay, nDryRun, nPage, nMod>>

\* lines 234-250
ScenarioPage ==
  /\ npc = "scenario"
  /\ Perform(<<Ev("villain", 0, MappedVillain(nPlay.Villain)), ClickNext>>, "campaign")
  /\ UNCHANGED <<nPlay, nDryRun, nPage, nI, nMod>>

\* line 269
isWreckingCrew_Never(play) == FALSE

isWreckingCrew(play) == play.Villain \in SCENARIOS_WITHOUT_MODULAR_PAGE

\* lines 252-266: isOnCampaignPage probes the page (a fault of the
\* probe counts as absent)
CampaignPage_NoAdvance ==
  /\ npc = "campaign"
  /\ \E campaignShown \in BOOLEAN :
       Perform(IF campaignShown THEN <<Ev("campaign", 0, "No")>> ELSE <<>>,
               IF isWreckingCrew(nPlay) THEN "difficulty" ELSE "modularCheck")
  /\ UNCHANGED <<nPlay, nDryRun, nPage, nI, nMod>>

CampaignPage ==
  /\ npc = "campaign"
  /\ \E campaignShown \in BOOLEAN :
       Perform(IF campaignShown THEN <<Ev("campaign", 0, "No"), ClickNext>> ELSE <<>>,
               IF isWreckingCrew(nPlay) THEN "difficulty" ELSE "modularCheck")
  /\ UNCHANGED <<nPlay, nDryRun, nPage, nI, nMod>>

\* lines 272-279: isOnModularSetsPage probes for checkboxes (a fault of the
\* probe counts as absent); without them submitPlay returns false
ModularCheck_NoReturn ==
  /\ npc = "modularCheck"
  /\ \E markerShown \in BOOLEAN :
       /\ nLog' = IF markerShown THEN nLog ELSE Append(nLog, Ev("pageMismatch", 0, ""))
       /\ npc' = IF Len(nPlay.Modular_Sets) > 0 THEN "modularSelect" ELSE "modularNext"
       /\ UNCHANGED nResult
  /\ nMod' = 1
  /\ UNCHANGED <<nPlay, nDryRun, nPage, nI>>

ModularCheck ==
  /\ npc = "modularCheck"
  /\ \E markerShown \in BOOLEAN :
       IF markerShown
       THEN /\ npc' = IF Len(nPlay.Modular_Sets) > 0 THEN "modularSelect" ELSE "modularNext"
            /\ UNCHANGED <<nLog, nResult>>
       ELSE /\ nLog' = Append(nLog, Ev("pageMismatch", 0, ""))
            /\ npc' = "done"
            /\ nResult' = "false"
  /\ nMod' = 1
  /\ UNCHANGED <<nPlay, nDryRun, nPage, nI>>

\* lines 280-301: one modular set: exact match, else first partial match, else
\* a warning; a fault is caught inside the loop
ModularSelect_FaultFails ==
  /\ npc = "modularSelect"
  /\ \E outcome \in {"modularSelected", "modularNotFound", "modularFault"} :
       /\ nLog' = Append(nLog, Ev(outcome, nMod, nPlay.Modular_Sets[nMod]))
       /\ IF outcome = "modularSelected"
          THEN /\ npc' = IF nMod + 1 <= Len(nPlay.Modular_Sets) THEN "modularSelect"
                         ELSE "modularNext"
               /\ UNCHANGED nResult
          ELSE npc' = "done" /\ nResult' = CatchResult
  /\ nMod' = nMod + 1
  /\ UNCHANGED <<nPlay, nDryRun, nPage, nI>>

ModularSelect ==
  /\ npc = "modularSelect"
  /\ \E outcome \in {"modularSelected", "modularNotFound", "modularFault"} :
       nLog' = Append(nLog, Ev(outcome, nMod, nPlay.Modular_Sets[nMod]))
  /\ npc' = IF nMod + 1 <= Len(nPlay.Modular_Sets) THEN "modularSelect" ELSE "modularNext"
  /\ nMod' = nMod + 1
  /\ UNCHANGED <<nPlay, nDryRun, nPage, nI, nResult>>

\* lines 303-304
ModularNext ==
  /\ npc = "modularNext"
  /\ Perform(<<ClickNext>>, "difficulty")
  /\ UNCHANGED <<nPlay, nDryRun, nPage, nI, nMod>>

\* lines 339-343 and 355-360
HeroicClicks(difficulty) ==
  IF difficulty.heroic # "" THEN <<Ev("heroic", 0, difficulty.heroic)>> ELSE <<>>

\* lines 331-334
wreckingCrewDifficulty_AlwaysStandard(play) == "Standard (version-A Villains)"

wreckingCrewDifficulty(play) ==
  IF \/ Includes(Chars[play.Difficulty], <<"E">>)
     \/ Includes(ToLowerCase(Chars[play.Difficulty]), <<"e", "x", "p", "e", "r", "t">>)
  THEN "Expert (version-B Villains)"
  ELSE "Standard (version-A Villains)"

\* lines 309-363
DifficultyPage ==
  /\ npc = "difficulty"
  /\ LET difficulty == parseDifficulty(Chars[nPlay.Difficulty])
         won == nPlay.Heroes[1].Win = 1
     IN Perform(<<Ev("win", 0, IF won THEN "Yes" ELSE "No")>>
                  \o (IF isWreckingCrew(nPlay)
                      THEN <<Ev("wcDifficulty", 0, wreckingCrewDifficulty(nPlay))>>
                      ELSE <<Ev("standard", 0, difficulty.standard),
                             Ev("expert", 0, difficulty.expert)>>)
                  \o HeroicClicks(difficulty),
                "submit")
  /\ UNCHANGED <<nPlay, nDryRun, nPage, nI, nMod>>

\* lines 365-372: click Submit, wait for the page to settle, return true; the
\* dryRun argument of the constructor call is not taken by the constructor
\* (lines 20-22) and nothing here reads it
SubmitPage_IgnoresSettle ==
  /\ npc = "submit"
  /\ \E k \in 0..2 :
       LET clicks == <<Ev("submit", 0, ""), Ev("settled", 0, "")>>
       IN IF k = 2
          THEN /\ nLog' = nLog \o clicks
               /\ nResult' = "true"
          ELSE /\ nLog' = (nLog \o SubSeq(clicks, 1, k)) \o <<Ev("fault", 0, "")>>
               /\ nResult' = IF k = 1 THEN "true" ELSE CatchResult
  /\ npc' = "done"
  /\ UNCHANGED <<nPlay, nDryRun, nPage, nI, nMod>>

SubmitPage ==
  /\ npc = "submit"
  /\ \E k \in 0..2 :
       LET clicks == <<Ev("submit", 0, ""), Ev("settled", 0, "")>>
       IN IF k = 2
          THEN /\ nLog' = nLog \o clicks
               /\ nResult' = "true"
          ELSE /\ nLog' = (nLog \o SubSeq(clicks, 1, k)) \o <<Ev("fault", 0, "")>>
               /\ nResult' = CatchResult
  /\ npc' = "done"
  /\ UNCHANGED <<nPlay, nDryRun, nPage, nI, nMod>>

\* =================================================================
\* Specifications
\* =================================================================

IdleChunk == cArray = <<>> /\ cNum = 0 /\ cResult = chunkArray(<<>>, 0) /\ cpc = "idle"

IdleFilter ==
  /\ fInput = <<>> /\ fAll = <<>> /\ fStart = NoDate /\ fpc = "idle"
  /\ fOut = filterPlays([ref |-> 1, items |-> <<>>], NoDate)
  /\ fAgain = filterPlays([ref |-> 1, items |-> <<>>], NoDate)

IdlePar ==
  /\ plays = <<>> /\ maxWorkers = 0 /\ fate = <<>> /\ ppc = "idle" /\ numWorkers = 0
  /\ chunks = <<>> /\ workers = <<>> /\ browsers = <<>> /\ sess = <<>>
  /\ results = <<>> /\ summary = [processed |-> 0, success |-> 0, failed |-> 0]
  /\ exitCode = NotExited

IdleSeq ==
  /\ qpc = "idle" /\ qIdx = 1 /\ qSuccess = 0 /\ qFailure = 0 /\ qConsec = 0
  /\ qLog = <<>> /\ qBrowser = "none"

IdleMain ==
  /\ args = <<>> /\ nFile = 0 /\ mpc = "idle" /\ mJsonPath = Undefined
  /\ mStartDate = Undefined /\ mMaxWorkers = DefaultMaxWorkers /\ mUseParallel = TRUE
  /\ mExit = NotExited /\ mFileRead = FALSE /\ mNumWorkers = 0 /\ mChunkSizes = <<>>
  /\ mWorkers = 0 /\ mStatus = <<>>

IdlePlay ==
  [Id |-> 0, Villain |-> "", Difficulty |-> "S1", Multiplayer |-> FALSE,
   Heroes |-> <<>>, Modular_Sets |-> <<>>]

IdleNav ==
  /\ nPlay = IdlePlay /\ nDryRun = FALSE /\ nPage = FALSE /\ npc = "idle" /\ nI = 2
  /\ nMod = 1 /\ nLog = <<>> /\ nResult = "none"

IdleUtil ==
  /\ uTokens = <<>> /\ uText = <<>> /\ upc = "idle"
  /\ uDifficulty = [standard |-> "", expert |-> "", heroic |-> "", skirmish |-> ""]
  /\ uAspect = [canonical |-> FALSE, label |-> "", text |-> <<>>]

\* ---------------------------------------------------------------- SpecChunk
Items == 1..NumItems

CallChunkArray ==
  /\ cpc = "call"
  /\ cResult' = chunkArray(cArray, cNum)
  /\ cpc' = "done"
  /\ UNCHANGED <<cArray, cNum>>

InitChunk ==
  /\ cArray \in SeqsUpTo(Items, MaxLen)
  /\ cNum \in 0..MaxChunks
  /\ cResult = chunkArray(<<>>, 0)
  /\ cpc = "call"
  /\ IdleFilter /\ IdlePar /\ IdleSeq /\ IdleMain /\ IdleNav /\ IdleUtil

NextChunk == CallChunkArray /\ UNCHANGED <<filterVars, parVars, seqVars, mainVars, navVars, utilVars>>

SpecChunk == InitChunk /\ [][NextChunk]_vars

\* --------------------------------------------------------------- SpecFilter
HeroLists == {<<[Aspect |-> "Justice"]>>, <<[Aspect |-> "Justice"], [Aspect |-> "Basic"]>>}

ScenarioSetups ==
  {[Villain |-> "Wrecking Crew", Modular_Sets |-> <<>>],
   [Villain |-> "Rhino", Modular_Sets |-> <<>>],
   [Villain |-> "Rhino", Modular_Sets |-> <<"Bomb Scare">>]}

StartDates == {NoDate, <<2026, 1, 1>>, <<2026, 1, 15>>}

PlayKinds ==
  {[Date |-> d, Villain |-> v.Villain, Modular_Sets |-> v.Modular_Sets, Heroes |-> h] :
     d \in Dates, v \in ScenarioSetups, h \in HeroLists}

\* record number k of the file carries Id k
WithIds(kinds) ==
  [k \in 1..Len(kinds) |->
     [Id |-> k, Date |-> kinds[k].Date, Villain |-> kinds[k].Villain,
      Modular_Sets |-> kinds[k].Modular_Sets, Heroes |-> kinds[k].Heroes]]

CallFilterPlays ==
  /\ fpc = "call"
  /\ LET r == filterPlays([ref |-> 1, items |-> fAll], fStart)
     IN /\ fOut' = [playsToProcess |-> r.playsToProcess, stats |-> r.stats,
                    allPlays |-> r.allPlays]
        /\ fAll' = r.allPlays
  /\ fpc' = "done"
  /\ UNCHANGED <<fInput, fStart, fAgain>>

\* filterPlays called a second time, on the array it returned, with the same
\* start date
CallFilterPlaysAgain ==
  /\ fpc = "done"
  /\ fAgain' = filterPlays([ref |-> 1, items |-> fOut.playsToProcess], fStart)
  /\ fpc' = "again"
  /\ UNCHANGED <<fInput, fAll, fStart, fOut>>

InitFilter ==
  /\ \E n \in 0..MaxInput : \E kinds \in [1..n -> PlayKinds] : fInput = WithIds(kinds)
  /\ fAll = fInput
  /\ fStart \in StartDates
  /\ fOut = filterPlays([ref |-> 1, items |-> <<>>], NoDate)
  /\ fAgain = filterPlays([ref |-> 1, items |-> <<>>], NoDate)
  /\ fpc = "call"
  /\ IdleChunk /\ IdlePar /\ IdleSeq /\ IdleMain /\ IdleNav /\ IdleUtil

FilterStep ==
  \/ CallFilterPlays
  \/ CallFilterPlaysAgain

NextFilter == FilterStep /\ UNCHANGED <<chunkVars, parVars, seqVars, mainVars, navVars, utilVars>>

SpecFilter == InitFilter /\ [][NextFilter]_vars

\* ------------------------------------------------------------------ SpecPar
\* the filtered, sorted records are numbered 1..n in processing order; fate
\* says for each record whether its traversal (submitPlay) succeeds
InitParWith(workerCounts) ==
  /\ \E n \in 0..MaxPlays :
       /\ plays = [k \in 1..n |-> k]
       /\ fate \in [1..n -> BOOLEAN]
  /\ maxWorkers \in workerCounts
  /\ ppc = "prepare"
  /\ numWorkers = 0
  /\ chunks = <<>> /\ workers = <<>> /\ browsers = <<>> /\ sess = <<>>
  /\ results = <<>> /\ summary = [processed |-> 0, success |-> 0, failed |-> 0]
  /\ exitCode = NotExited

InitPar == InitParWith(1..MaxWorkersArg) /\ IdleChunk /\ IdleFilter /\ IdleSeq /\ IdleMain /\ IdleNav /\ IdleUtil

ParStep ==
  \/ Prepare
  \/ InitWorker
  \/ \E s \in 1..MaxPlays : Recover(s)
  \/ \E s \in 1..MaxPlays : RecoveryWait(s)
  \/ \E s \in 1..MaxPlays : SubmitPlay(s)
  \/ \E s \in 1..MaxPlays : Delay(s)
  \/ Join
  \/ JoinReject
  \/ CloseWorkers
  \/ MainCatch

NextPar == ParStep /\ UNCHANGED <<chunkVars, filterVars, seqVars, mainVars, navVars, utilVars>>

SpecPar == InitPar /\ [][NextPar]_vars

\* ---------------------------------------------------------------- SpecEquiv
\* the same records with the same fates are processed once by
\* processPlaysSequentially and once by processPlaysInParallel with one worker
InitEquiv ==
  /\ InitParWith({1})
  /\ qpc = "init" /\ qIdx = 1 /\ qSuccess = 0 /\ qFailure = 0 /\ qConsec = 0
  /\ qLog = <<>> /\ qBrowser = "none"
  /\ IdleChunk /\ IdleFilter /\ IdleMain /\ IdleNav /\ IdleUtil

SeqStep ==
  \/ SeqInitialize
  \/ SeqSubmitPlay
  \/ SeqDelay
  \/ SeqClose

NextEquiv ==
  \/ ParStep /\ UNCHANGED <<chunkVars, filterVars, seqVars, mainVars, navVars, utilVars>>
  \/ SeqStep /\ UNCHANGED <<chunkVars, filterVars, parVars, mainVars, navVars, utilVars>>

SpecEquiv == InitEquiv /\ [][NextEquiv]_vars

\* ----------------------------------------------------------------- SpecMain
Path == <<"p">>

StartArg == <<"2", "0", "2", "6", "-", "0", "1", "-", "0", "1">>

WorkerTokens == {<<"0">>, <<"1">>, <<"3">>, <<"8">>, <<"9">>, <<"-", "2">>, <<"x">>, <<"4", "x">>}

ArgLists ==
  {<<>>, <<Path>>, <<Path, StartArg>>, <<Path, ArgS>>, <<Path, StartArg, ArgSequential>>,
   <<Path, ArgW>>}
  \cup {<<Path, ArgW, t>> : t \in WorkerTokens}
  \cup {<<Path, StartArg, ArgWorkers, t>> : t \in WorkerTokens}
  \cup {<<ArgW, t, Path>> : t \in WorkerTokens}

InitMain ==
  /\ args \in ArgLists
  /\ nFile \in 0..MaxFilePlays
  /\ mpc = "parse"
  /\ mJsonPath = Undefined /\ mStartDate = Undefined /\ mMaxWorkers = DefaultMaxWorkers
  /\ mUseParallel = TRUE /\ mExit = NotExited /\ mFileRead = FALSE
  /\ mNumWorkers = 0 /\ mChunkSizes = <<>> /\ mWorkers = 0 /\ mStatus = <<>>
  /\ IdleChunk /\ IdleFilter /\ IdlePar /\ IdleSeq /\ IdleNav /\ IdleUtil

MainStep ==
  \/ ParseArgs
  \/ Dispatch
  \/ MainInitWorker
  \/ \E s \in 1..(MaxFilePlays + 1) : MainSessionEnd(s)
  \/ MainJoin
  \/ MainJoinReject
  \/ MainCatchExit

NextMain == MainStep /\ UNCHANGED <<chunkVars, filterVars, parVars, seqVars, navVars, utilVars>>

SpecMain == InitMain /\ [][NextMain]_vars

\* ------------------------------------------------------------------ SpecNav
\* one call of submitPlay, for every record of a bounded set, every fault of a
\* page primitive and every answer of the page probes
HeroEntries ==
  {[Hero |-> "Adam Warlock", Aspect |-> "Justice", Win |-> 1],
   [Hero |-> "Spider Woman", Aspect |-> "Justice & aggression", Win |-> 1],
   [Hero |-> "Hulk", Aspect |-> "Aggression", Win |-> 0]}

\* the first two heroes are any entries, the third is not Adam Warlock and the
\* fourth is Hulk
NavHeroLists(n) ==
  {heroes \in [1..n -> HeroEntries] :
     /\ n >= 3 => heroes[3].Hero # "Adam Warlock"
     /\ n >= 4 => heroes[4].Hero = "Hulk"}

NavScenarios ==
  {[Villain |-> "Wrecking Crew", Modular_Sets |-> <<>>],
   [Villain |-> "Ronan", Modular_Sets |-> <<"Bomb Scare">>],
   [Villain |-> "Rhino", Modular_Sets |-> <<"Bomb Scare", "Masters of Evil">>]}

NavDifficulties == {"S1", "S2E2", "Heroic"}

InitNav ==
  /\ \E n \in 1..FormHeroSlots : \E heroes \in NavHeroLists(n) :
       \E sc \in NavScenarios, df \in NavDifficulties, mp \in BOOLEAN :
         nPlay = [Id |-> 1, Villain |-> sc.Villain, Difficulty |-> df, Multiplayer |-> mp,
                  Heroes |-> heroes, Modular_Sets |-> sc.Modular_Sets]
  /\ nDryRun \in BOOLEAN
  /\ nPage \in BOOLEAN
  /\ npc = "call"
  /\ nI = 2 /\ nMod = 1 /\ nLog = <<>> /\ nResult = "none"
  /\ IdleChunk /\ IdleFilter /\ IdlePar /\ IdleSeq /\ IdleMain /\ IdleUtil

NavStep ==
  \/ Navigate
  \/ NavigateRetry
  \/ HeroPage
  \/ AspectPage
  \/ ExtraHeroPage
  \/ ExtraAspectPage
  \/ ScenarioPage
  \/ CampaignPage
  \/ ModularCheck
  \/ ModularSelect
  \/ ModularNext
  \/ DifficultyPage
  \/ SubmitPage

NextNav == NavStep /\ UNCHANGED <<chunkVars, filterVars, parVars, seqVars, mainVars, utilVars>>

SpecNav == InitNav /\ [][NextNav]_vars

\* ----------------------------------------------------------------- SpecUtil
\* parseDifficulty applied to every code of up to MaxCode characters over the
\* characters of the markers and to some spellings of Heroic;
\* mapSpiderWomanAspects applied to every string of up to MaxTokens words
CodeAlphabet == {"S", "E", "1", "2", "3"}

HeroicSpellings ==
  {<<"H", "e", "r", "o", "i", "c">>,
   <<"h", "e", "r", "o", "i", "c">>,
   <<"H", "e", "r", "o", "i", "c", "S", "2">>,
   <<"E", "x", "p", "e", "r", "t">>}

\* the words aspect strings are made of, with their characters
AspectWords ==
  ("aggression" :> KwAggression) @@
  ("Aggression" :> <<"A", "g", "g", "r", "e", "s", "s", "i", "o", "n">>) @@
  ("justice" :> KwJustice) @@
  ("JUSTICE" :> <<"J", "U", "S", "T", "I", "C", "E">>) @@
  ("Leadership" :> <<"L", "e", "a", "d", "e", "r", "s", "h", "i", "p">>) @@
  ("protection" :> KwProtection) @@
  ("Basic" :> <<"B", "a", "s", "i", "c">>) @@
  ("pool" :> KwPool) @@
  ("determination" :> <<"d", "e", "t", "e", "r", "m", "i", "n", "a", "t", "i", "o", "n">>) @@
  (" & " :> <<" ", "&", " ">>)

WordsText(tokens) == Concat([k \in 1..Len(tokens) |-> AspectWords[tokens[k]]])

InitUtil ==
  /\ \/ /\ upc = "difficulty"
        /\ uText \in SeqsUpTo(CodeAlphabet, MaxCode) \cup HeroicSpellings
        /\ uTokens = uText
     \/ /\ upc = "aspect"
        /\ uTokens \in SeqsUpTo(DOMAIN AspectWords, MaxTokens)
        /\ uText = WordsText(uTokens)
  /\ uDifficulty = [standard |-> "", expert |-> "", heroic |-> "", skirmish |-> ""]
  /\ uAspect = [canonical |-> FALSE, label |-> "", text |-> <<>>]
  /\ IdleChunk /\ IdleFilter /\ IdlePar /\ IdleSeq /\ IdleMain /\ IdleNav

CallParseDifficulty ==
  /\ upc = "difficulty"
  /\ uDifficulty' = parseDifficulty(uText)
  /\ upc' = "parsed"
  /\ UNCHANGED <<uTokens, uText, uAspect>>

CallMapSpiderWomanAspects ==
  /\ upc = "aspect"
  /\ uAspect' = mapSpiderWomanAspectsOf(uText)
  /\ upc' = "mapped"
  /\ UNCHANGED <<uTokens, uText, uDifficulty>>

UtilStep == \/ CallParseDifficulty \/ CallMapSpiderWomanAspects

NextUtil ==
  UtilStep /\ UNCHANGED <<chunkVars, filterVars, parVars, seqVars, mainVars, navVars>>

SpecUtil == InitUtil /\ [][NextUtil]_vars

\* =================================================================
\* Properties
\* =================================================================

IsAttempt(e) == e[1] = "attempt"

IsFailedAttempt(e) == e[1] = "attempt" /\ e[3] = FALSE

\* number of failed attempts that directly precede position p of a session log
RECURSIVE FailsBefore(_, _)
FailsBefore(log, p) ==
  IF p > 1 /\ IsFailedAttempt(log[p - 1]) THEN 1 + FailsBefore(log, p - 1) ELSE 0

CountAttempts(log, ok) ==
  Cardinality({p \in 1..Len(log) : IsAttempt(log[p]) /\ log[p][3] = ok})

\* C1 (SpecPar): no fault of a session's page primitives escapes its
\* processPlaysChunk: no session ends by throwing and the join is never
\* rejected by a session.
C1_NothingEscapesSession ==
  /\ \A s \in DOMAIN sess : sess[s].pc # "threw"
  /\ ppc # "joinRejected"

\* C2 (SpecPar): after 3 consecutive failed records a session reacquires its
\* page exactly once before it attempts the next record: no record is attempted
\* directly after 3 failures, every reacquisition directly follows exactly 3
\* consecutive failures (so two never follow each other), the counter is 0
\* right after the reacquisition, and after the next record it is 0 or 1
\* according to that record's outcome alone.
C2_OneReacquisitionThenReset ==
  \A s \in DOMAIN sess :
    LET log == sess[s].log
    IN /\ \A p \in 1..Len(log) :
            /\ IsAttempt(log[p]) => FailsBefore(log, p) < MAX_CONSECUTIVE_FAILURES
            /\ log[p] = <<"recover">> => FailsBefore(log, p) = MAX_CONSECUTIVE_FAILURES
       /\ (Len(log) > 0 /\ log[Len(log)] = <<"recover">>) => sess[s].consecutiveFailures = 0
       /\ (Len(log) > 1 /\ log[Len(log) - 1] = <<"recover">> /\ IsAttempt(log[Len(log)]))
            => sess[s].consecutiveFailures = (IF log[Len(log)][3] THEN 0 ELSE 1)

C2_Witness ==
  \E s \in DOMAIN sess :
    \E p \in 1..Len(sess[s].log) :
      /\ sess[s].log[p] = <<"recover">>
      /\ p < Len(sess[s].log)
      /\ IsAttempt(sess[s].log[p + 1])

\* C3 (SpecPar): when acquiring the new page fails during recovery, the session
\* attempts nothing more (the failure is the last event of its log, with
\* records of its chunk left over), it has returned, and the pair it returns
\* counts exactly the successful and the failed attempts made before.
C3_FailedRecoveryStopsSession ==
  \A s \in DOMAIN sess :
    LET log == sess[s].log
    IN \A p \in 1..Len(log) :
         log[p] = <<"recoverFailed">> =>
           /\ p = Len(log)
           /\ sess[s].pc = "returned"
           /\ sess[s].idx = CountAttempts(log, TRUE) + CountAttempts(log, FALSE) + 1
           /\ sess[s].result.success = CountAttempts(log, TRUE)
           /\ sess[s].result.failed = CountAttempts(log, FALSE)

C3_Witness ==
  \E s \in DOMAIN sess :
    /\ Len(sess[s].log) > 0
    /\ sess[s].log[Len(sess[s].log)] = <<"recoverFailed">>
    /\ sess[s].idx <= Len(chunks[s])
    /\ sess[s].result.failed >= MAX_CONSECUTIVE_FAILURES

\* C4 (SpecEquiv): when both runs have finished, the sequential run and the
\* single session have attempted the same records in the same order with page
\* recovery at the same points, and report the same counts.
C4_SequentialMatchesChunk ==
  (qpc = "done" /\ ppc = "done") =>
    /\ qLog = sess[1].log
    /\ qSuccess = summary.success
    /\ qFailure = summary.failed

\* C5 (SpecChunk): for a positive chunk count, the chunks of chunkArray
\* concatenated in order are exactly the input array.
C5_ChunksConcatToInput ==
  (cpc = "done" /\ cNum >= 1) =>
    /\ ~cResult.threw
    /\ Concat(cResult.chunks) = cArray

C5_Witness ==
  /\ cpc = "done"
  /\ cNum >= 2
  /\ Len(cArray) > cNum
  /\ Len(cResult.chunks) >= 2
  /\ \E k \in 1..Len(cResult.chunks) : Len(cResult.chunks[k]) >= 2

\* C6 (SpecChunk): for a positive chunk count, the sizes of any two chunks
\* returned by chunkArray differ by at most 1.
C6_ChunkSizesDifferByAtMostOne ==
  (cpc = "done" /\ cNum >= 1) =>
    \A i, j \in 1..Len(cResult.chunks) :
      Len(cResult.chunks[i]) - Len(cResult.chunks[j]) <= 1

\* C7 (SpecPar): for n >= 1 surviving records and w >= 1 requested workers the
\* partition has exactly min(w, n) chunks, and when w >= n every chunk holds a
\* single record.
C7_ChunkCountIsMin ==
  (ppc \in {"init", "running", "closing", "done"}) =>
    /\ Len(chunks) = Min(maxWorkers, Len(plays))
    /\ maxWorkers >= Len(plays) => \A k \in 1..Len(chunks) : Len(chunks[k]) = 1

\* C8 (SpecPar): while the sessions run, the number of initialized workers
\* equals the number of chunks, so every initialized worker has a chunk.
C8_OneChunkPerWorker ==
  ppc = "running" => Len(workers) = Len(chunks)

\* C9 (SpecMain): once processing has started, at least one session was
\* started and at most 8 sessions run at the same time.
C9_PoolWithinBounds ==
  mpc = "running" =>
    /\ Len(mStatus) >= 1
    /\ Cardinality({s \in DOMAIN mStatus : mStatus[s] = "running"}) <= DocumentedMaxWorkers

\* the record's date is on or after the start date (calendar comparison)
OnOrAfter(date, start) ==
  \/ date[1] > start[1]
  \/ date[1] = start[1] /\ date[2] > start[2]
  \/ date[1] = start[1] /\ date[2] = start[2] /\ date[3] >= start[3]

Eligible(play, start) ==
  /\ \A h \in 1..Len(play.Heroes) : play.Heroes[h].Aspect # "Basic"
  /\ play.Modular_Sets # <<>> \/ play.Villain = "Wrecking Crew"
  /\ start = NoDate \/ OnOrAfter(play.Date, start)

FilterReturned == fpc \in {"done", "again"}

\* C11 (SpecFilter): the sequence returned by filterPlays is non-decreasing by
\* date, whatever the order of the input.
C11_OutputSortedByDate ==
  FilterReturned =>
    \A i, j \in 1..Len(fOut.playsToProcess) :
      i < j => OnOrAfter(fOut.playsToProcess[j].Date, fOut.playsToProcess[i].Date)

C11_Witness ==
  /\ fpc = "done"
  /\ Len(fOut.playsToProcess) = Len(fInput)
  /\ \E i, j \in 1..Len(fInput) :
       i < j /\ fInput[i].Date # fInput[j].Date /\ OnOrAfter(fInput[i].Date, fInput[j].Date)

\* C12 (SpecFilter): two surviving records with the same date keep their input
\* order (Id is the position in the input).
C12_TiesKeepInputOrder ==
  FilterReturned =>
    \A i, j \in 1..Len(fOut.playsToProcess) :
      (i < j /\ fOut.playsToProcess[i].Date = fOut.playsToProcess[j].Date)
        => fOut.playsToProcess[i].Id < fOut.playsToProcess[j].Id

C12_Witness ==
  /\ fpc = "done"
  /\ \E i, j \in 1..Len(fOut.playsToProcess) :
       i < j /\ fOut.playsToProcess[i].Date = fOut.playsToProcess[j].Date
  /\ \E i, j \in 1..Len(fOut.playsToProcess) :
       i < j /\ fOut.playsToProcess[i].Id > fOut.playsToProcess[j].Id

\* C13 (SpecFilter): filterPlays applied to its own output with the same start
\* date returns the same sequence and rejects nothing.
C13_FilterIdempotent ==
  fpc = "again" =>
    /\ fAgain.playsToProcess = fOut.playsToProcess
    /\ fAgain.stats.skippedBasicAspect = 0
    /\ fAgain.stats.skippedEmptyModular = 0
    /\ fAgain.stats.skippedBeforeDate = 0

C13_Witness ==
  /\ fpc = "again"
  /\ fStart # NoDate
  /\ Len(fAgain.playsToProcess) >= 2
  /\ Len(fOut.playsToProcess) < Len(fInput)
  /\ fOut.playsToProcess # SelectSeq(fInput, LAMBDA p : Eligible(p, fStart))

\* C14 (SpecFilter): total is the size of the input, and total is the number of
\* surviving records plus the three rejection counters.
C14_CountersAddUp ==
  FilterReturned =>
    /\ fOut.stats.total = Len(fInput)
    /\ fOut.stats.total = Len(fOut.playsToProcess) + fOut.stats.skippedBasicAspect
                            + fOut.stats.skippedEmptyModular + fOut.stats.skippedBeforeDate

C14_Witness ==
  /\ fpc = "done"
  /\ fOut.stats.skippedBasicAspect >= 1
  /\ fOut.stats.skippedEmptyModular >= 1
  /\ fOut.stats.skippedBeforeDate >= 1

NavEvents(ev) == {p \in 1..Len(nLog) : nLog[p].ev = ev}

NavHas(ev) == NavEvents(ev) # {}

NavLast == IF nLog = <<>> THEN Ev("none", 0, "") ELSE nLog[Len(nLog)]

\* C15 (SpecNav): once the session has a page, submitPlay never throws: after
\* any fault of any page primitive at any step the call has returned false, and
\* whenever the call is over it has returned true or false.
C15_SubmitPlayNeverThrows ==
  nPage =>
    /\ nResult # "threw"
    /\ npc = "done" => nResult \in {"true", "false"}
    /\ NavHas("fault") => (npc = "done" /\ nResult = "false")

C15_Witness ==
  /\ nPage
  /\ npc = "done"
  /\ nResult = "false"
  /\ NavLast = Ev("fault", 0, "")
  /\ NavHas("win")

\* the form is navigated to at most twice per call of submitPlay, the second
\* time only after a fault of the first navigation; the traversal goes on to
\* the hero page when the retry succeeds, and the call returns false when the
\* retry faults
NavigationRetriedOnce ==
  /\ Cardinality(NavEvents("goto")) <= 2
  /\ Ev("goto", 2, "") \in {nLog[p] : p \in 1..Len(nLog)} => NavHas("navFault")
  /\ NavLast = Ev("navFault", 1, "") => npc = "retry"
  /\ NavLast = Ev("ready", 2, "") => (npc = "hero" /\ nResult = "none")
  /\ (NavLast = Ev("fault", 0, "") /\ ~NavHas("hero")) => (npc = "done" /\ nResult = "false")

\* C16 (SpecPar): a record whose submitPlay returned false (as it does when the
\* retry of the navigation fails too) fails alone: the session that attempted
\* it is not ended by it, so the failed attempt is never directly followed by
\* a fault that escapes processPlaysChunk.
C16_FailedRecordDoesNotEndSession ==
  \A s \in DOMAIN sess :
    LET log == sess[s].log
    IN \A p \in 1..Len(log) :
         (IsFailedAttempt(log[p]) /\ p < Len(log)) => log[p + 1] # <<"delayFault">>

\* C17 (SpecNav): when the submitter was constructed for a dry run, Submit is
\* never clicked, and a traversal whose earlier steps were all performed is
\* reported as a success.
C17_DryRunNeverSubmits ==
  nDryRun => ~NavHas("submit")

ModularEvents == {"modularSelected", "modularNotFound", "modularFault"}

\* the positions of the log at which a modular set was attempted
ModularAttempts == {p \in 1..Len(nLog) : nLog[p].ev \in ModularEvents}

DifficultyEvents == {"win", "wcDifficulty", "standard", "expert", "heroic"}

\* C18 (SpecNav): for a scenario outside SCENARIOS_WITHOUT_MODULAR_PAGE, when
\* the checkboxes of the modular sets page are absent where the page is
\* expected, submitPlay returns false at once: the page mismatch is the last
\* thing that happens, and no modular set, no win or difficulty selection and
\* no Submit click is in the log.
C18_MissingMarkerFailsAtOnce ==
  NavHas("pageMismatch") =>
    /\ ~isWreckingCrew(nPlay)
    /\ npc = "done"
    /\ nResult = "false"
    /\ NavLast = Ev("pageMismatch", 0, "")
    /\ ModularAttempts = {}
    /\ \A p \in 1..Len(nLog) : nLog[p].ev \notin DifficultyEvents \cup {"submit", "settled"}

C18_Witness ==
  /\ NavLast = Ev("pageMismatch", 0, "")
  /\ NavHas("villain")
  /\ Len(nPlay.Modular_Sets) = 2
  /\ nResult = "false"

\* C19 (SpecNav): a modular set that matches no checkbox, or whose selection
\* faults, does not fail the record: right after it the call is still running
\* on the modular sets page, the sets are attempted one by one in the order of
\* the record whatever the outcomes before, and when the traversal has reached
\* the Next button of the page or anything later, every set was attempted.
C19_ModularMissIsNotFatal ==
  /\ NavLast.ev \in {"modularNotFound", "modularFault"} =>
       /\ nResult = "none"
       /\ npc = (IF NavLast.i < Len(nPlay.Modular_Sets) THEN "modularSelect" ELSE "modularNext")
  /\ \A p \in ModularAttempts :
       /\ nLog[p].i = Cardinality({q \in ModularAttempts : q <= p})
       /\ nLog[p].label = nPlay.Modular_Sets[nLog[p].i]
  /\ (~isWreckingCrew(nPlay) /\ (npc \in {"modularNext", "difficulty", "submit"} \/ NavHas("win")))
       => Cardinality(ModularAttempts) = Len(nPlay.Modular_Sets)

C19_Witness ==
  /\ nResult = "true"
  /\ \E p \in ModularAttempts :
       /\ nLog[p].ev = "modularNotFound"
       /\ nLog[p + 1].ev \in ModularEvents
  /\ \E p \in ModularAttempts :
       /\ nLog[p].ev = "modularFault"
       /\ nLog[p + 1] = ClickNext

\* the answers given to "Was there a second Hero?"
SecondHeroAnswers == {nLog[p].label : p \in {q \in NavEvents("moreHeroes") : nLog[q].i = 2}}

\* C20 (SpecNav): "Was there a second Hero?" is answered Yes exactly when the
\* record has more than one hero and is not multiplayer, and No otherwise; a
\* further hero or its aspect is selected only after the answer Yes, and after
\* the answer No the traversal goes on with the scenario page.
C20_SecondHeroAnswer ==
  /\ SecondHeroAnswers \subseteq
       {IF Len(nPlay.Heroes) > 1 /\ ~nPlay.Multiplayer THEN "Yes" ELSE "No"}
  /\ (\E p \in 1..Len(nLog) : nLog[p].ev \in {"hero", "aspect"} /\ nLog[p].i >= 2)
       => SecondHeroAnswers = {"Yes"}
  /\ npc \in {"extraHero", "extraAspect"} => SecondHeroAnswers = {"Yes"}
  /\ (SecondHeroAnswers = {"No"} /\ NavLast = ClickNext /\ ~NavHas("villain"))
       => npc = "scenario"

C20_Witness ==
  /\ nResult = "true"
  /\ Len(nPlay.Heroes) > 1
  /\ nPlay.Multiplayer
  /\ SecondHeroAnswers = {"No"}
  /\ Cardinality(NavEvents("hero")) = 1

\* the two characters c, d stand next to each other somewhere in the text
MarkerIn(text, c, d) == \E k \in 1..(Len(text) - 1) : text[k] = c /\ text[k + 1] = d

DigitChar == (0 :> "0") @@ (1 :> "1") @@ (2 :> "2") @@ (3 :> "3")

Highest(S) == CHOOSE n \in S : \A m \in S : m <= n

StandardTier ==
  (1 :> "Standard (Core Set)") @@
  (2 :> "Standard II (The Hood scenario pack)") @@
  (3 :> "Standard III (Age of Apocalypse campaign box)")

ExpertTier ==
  (0 :> "None") @@
  (1 :> "Expert (Core Set)") @@
  (2 :> "Expert II (The Hood scenario pack)")

\* the table of README.md lines 85-93: code, standard level, expert level
ReadmeTable ==
  {<<<<"S", "1">>, 1, 0>>, <<<<"S", "2">>, 2, 0>>, <<<<"S", "3">>, 3, 0>>,
   <<<<"S", "1", "E", "1">>, 1, 1>>, <<<<"S", "1", "E", "2">>, 1, 2>>,
   <<<<"S", "2", "E", "1">>, 2, 1>>, <<<<"S", "2", "E", "2">>, 2, 2>>,
   <<<<"S", "3", "E", "1">>, 3, 1>>, <<<<"S", "3", "E", "2">>, 3, 2>>}

\* C21 (SpecUtil): for every code other than the literal Heroic, parseDifficulty
\* gives the standard tier of the highest of the markers S3, S2 in the code
\* (the core set when there is none) and, independently, the expert tier of
\* the highest of E2, E1 (None when there is none), with no heroic tier; every
\* row of the README table comes out as the table says.
C21_TiersByHighestMarker ==
  (upc = "parsed" /\ uText # <<"H", "e", "r", "o", "i", "c">>) =>
    /\ uDifficulty.standard =
         StandardTier[Highest({1} \cup {n \in {2, 3} : MarkerIn(uText, "S", DigitChar[n])})]
    /\ uDifficulty.expert =
         ExpertTier[Highest({0} \cup {n \in {1, 2} : MarkerIn(uText, "E", DigitChar[n])})]
    /\ uDifficulty.heroic = ""
    /\ \A row \in ReadmeTable :
         uText = row[1] =>
           /\ uDifficulty.standard = StandardTier[row[2]]
           /\ uDifficulty.expert = ExpertTier[row[3]]

C21_Witness ==
  /\ upc = "parsed"
  /\ uText = <<"S", "2", "S", "3">>
  /\ uDifficulty.standard = "Standard III (Age of Apocalypse campaign box)"
  /\ uDifficulty.expert = "None"

\* C22 (SpecNav): the traversal of a record with difficulty Heroic on a
\* scenario with the standard and expert questions selects the heroic tier and
\* makes no selection for the standard or the expert question.
C22_HeroicSelectsHeroicOnly ==
  (nPlay.Difficulty = "Heroic" /\ ~isWreckingCrew(nPlay)) =>
    /\ ~NavHas("standard")
    /\ ~NavHas("expert")

\* the keyword each word of AspectWords spells, in whatever letter case
WordKeyword ==
  ("aggression" :> "aggression") @@ ("Aggression" :> "aggression") @@
  ("justice" :> "justice") @@ ("JUSTICE" :> "justice") @@
  ("Leadership" :> "leadership") @@ ("protection" :> "protection") @@
  ("Basic" :> "basic") @@ ("pool" :> "basic") @@
  ("determination" :> "none") @@ (" & " :> "none")

KeywordsOf(tokens) == {WordKeyword[tokens[k]] : k \in 1..Len(tokens)}

\* the ten canonical labels with the keyword pair each stands for
CanonicalPairs ==
  ("Aggression and Justice" :> {"aggression", "justice"}) @@
  ("Aggression and Leadership" :> {"aggression", "leadership"}) @@
  ("Aggression and Protection" :> {"aggression", "protection"}) @@
  ("Justice and Leadership" :> {"justice", "leadership"}) @@
  ("Justice and Protection" :> {"justice", "protection"}) @@
  ("Leadership and Protection" :> {"leadership", "protection"}) @@
  ("Aggression and Pool" :> {"aggression", "basic"}) @@
  ("Justice and Pool" :> {"justice", "basic"}) @@
  ("Leadership and Pool" :> {"leadership", "basic"}) @@
  ("Pool and Protection" :> {"protection", "basic"})

HasRecognizedPair(tokens) ==
  \E label \in DOMAIN CanonicalPairs : CanonicalPairs[label] \subseteq KeywordsOf(tokens)

\* C23 (SpecUtil): mapSpiderWomanAspects returns "Aggression and Justice" for
\* every string that holds both aggression and justice, in any letter case and
\* order and whatever else it holds; it returns one of the ten canonical
\* labels, for a pair the string holds, whenever some recognized pair is
\* present; and it returns its input unchanged when none is.
C23_SpiderWomanMapping ==
  upc = "mapped" =>
    /\ {"aggression", "justice"} \subseteq KeywordsOf(uTokens) =>
         (uAspect.canonical /\ uAspect.label = "Aggression and Justice")
    /\ HasRecognizedPair(uTokens) =>
         /\ uAspect.canonical
         /\ uAspect.label \in DOMAIN CanonicalPairs
         /\ CanonicalPairs[uAspect.label] \subseteq KeywordsOf(uTokens)
    /\ ~HasRecognizedPair(uTokens) => (~uAspect.canonical /\ uAspect.text = uText)

C23_Witness ==
  /\ upc = "mapped"
  /\ uTokens = <<"JUSTICE", "Leadership", "Aggression">>
  /\ uAspect.label = "Aggression and Justice"

\* no input path: nothing, or an option, stands where the path is expected
MissingPath == args = <<>> \/ args[1][1] = "-"

\* worker counts that are not a number or are less than 1
InvalidCounts == {<<"0">>, <<"-", "2">>, <<"x">>}

\* a worker option with no count after it or with an invalid one
InvalidWorkerCount ==
  \E k \in 1..Len(args) :
    /\ args[k] \in {ArgW, ArgWorkers}
    /\ k = Len(args) \/ args[k + 1] \in InvalidCounts

\* C24 (SpecMain): with a missing input path or an invalid worker count, the
\* file is never read, no browser is launched and no session is started, and
\* main ends by exiting with status 1, for an invalid worker count already in
\* the argument loop.
C24_BadInvocationExitsFirst ==
  (MissingPath \/ InvalidWorkerCount) =>
    /\ mFileRead = FALSE
    /\ mNumWorkers = 0 /\ mWorkers = 0 /\ mStatus = <<>>
    /\ mExit \in {NotExited, 1}
    /\ mpc \in {"parse", "validate", "exited"}
    /\ mpc = "exited" => mExit = 1
    /\ InvalidWorkerCount => mpc \in {"parse", "exited"}

C24_Witness ==
  /\ args = <<Path, ArgW, <<"0">>>>
  /\ nFile > 0
  /\ mpc = "exited"
  /\ mExit = 1

\* C25 (SpecPar): once processPlaysInParallel has been called with a valid
\* invocation, nothing that goes wrong (a failed record, a chunk abandoned
\* after a failed recovery, a fault inside a session or while the workers are
\* initialized) makes the process exit with a status: the exit status stays
\* what it is for a run without failures.
C25_FailuresLeaveExitStatus ==
  /\ exitCode = NotExited
  /\ ppc # "exited"

AttemptPositions(log) == {p \in 1..Len(log) : IsAttempt(log[p])}

\* C26 (SpecPar): in every session and under every interleaving of the
\* sessions, the k-th attempt of the session is the k-th record of its chunk
\* (so the records are attempted in chunk order, each at most once), and a
\* record is attempted only when all records before it have been attempted and
\* their delays are over: while the delay of a record is pending the session
\* has attempted exactly the records up to it, and whenever the session is
\* about to attempt a record it has attempted exactly the records before it.
C26_ChunkOrderOneAtATime ==
  \A s \in DOMAIN sess :
    LET log == sess[s].log
        attempts == AttemptPositions(log)
    IN /\ Cardinality(attempts) <= Len(chunks[s])
       /\ \A p \in attempts :
            log[p][2] = chunks[s][Cardinality({q \in attempts : q <= p})]
       /\ sess[s].pc = "delay" => Cardinality(attempts) = sess[s].idx
       /\ sess[s].pc \in {"loop", "recwait", "submit"} =>
            Cardinality(attempts) = sess[s].idx - 1

C26_Witness ==
  \E s, t \in DOMAIN sess :
    /\ s # t
    /\ Cardinality(AttemptPositions(sess[s].log)) = 2
    /\ Cardinality(AttemptPositions(sess[t].log)) = 1
    /\ sess[s].pc = "returned"
    /\ sess[t].pc = "delay"

\* the attempts of all sessions with the given outcome
AllAttempts(ok) ==
  UNION {{<<s, p>> : p \in {q \in AttemptPositions(sess[s].log) : sess[s].log[q][3] = ok}} :
           s \in DOMAIN sess}

\* C27 (SpecPar): the pair a session returns counts exactly the attempts of
\* its chunk that returned true, respectively false, and the totals of the
\* summary are the sums of these pairs over all chunks, in whatever order the
\* sessions finished.
C27_AggregateIsSumOfPairs ==
  /\ ppc \in {"closing", "done"} =>
       /\ Len(results) = Len(chunks)
       /\ \A k \in DOMAIN results :
            /\ results[k].success = CountAttempts(sess[k].log, TRUE)
            /\ results[k].failed = CountAttempts(sess[k].log, FALSE)
  /\ ppc = "done" =>
       /\ summary.success = Cardinality(AllAttempts(TRUE))
       /\ summary.failed = Cardinality(AllAttempts(FALSE))

C27_Witness ==
  /\ ppc = "done"
  /\ Len(results) >= 2
  /\ results[1].failed >= 1
  /\ results[2].failed >= 1
  /\ summary.success >= 1
  /\ summary.failed = results[1].failed + results[2].failed

\* the step is one in which session s attempts a record
AttemptStep(s) ==
  /\ s \in DOMAIN sess /\ s \in DOMAIN sess'
  /\ Len(sess'[s].log) = Len(sess[s].log) + 1
  /\ IsAttempt(sess'[s].log[Len(sess'[s].log)])

\* C28 (SpecPar): in every session the consecutive-failure counter stays
\* between 0 and 3; every attempt starts with the counter below 3, leaves it
\* at 0 when the record succeeded and one higher than before when it failed.
C28_CounterDiscipline ==
  /\ [](\A s \in DOMAIN sess :
          sess[s].consecutiveFailures \in 0..MAX_CONSECUTIVE_FAILURES)
  /\ [][\A s \in 1..MaxPlays :
          AttemptStep(s) =>
            /\ sess[s].consecutiveFailures < MAX_CONSECUTIVE_FAILURES
            /\ sess'[s].consecutiveFailures =
                 (IF sess'[s].log[Len(sess'[s].log)][3] THEN 0
                  ELSE sess[s].consecutiveFailures + 1)]_vars

C28_Witness ==
  \E s \in DOMAIN sess :
    LET log == sess[s].log
    IN /\ Len(log) = 5
       /\ \A p \in 1..3 : IsFailedAttempt(log[p])
       /\ log[4] = <<"recover">>
       /\ IsFailedAttempt(log[5])
       /\ sess[s].consecutiveFailures = 1

\* the page of the form an interaction belongs to, in the order of the form
\* (0 for the navigation and for the Next button, which every page has)
StepRank ==
  [ev \in {"hero", "aspect", "moreHeroes"} |-> 1] @@
  ("villain" :> 2) @@ ("campaign" :> 3) @@
  [ev \in {"modularSelected", "modularNotFound", "modularFault"} |-> 4] @@
  [ev \in {"win", "wcDifficulty", "standard", "expert", "heroic"} |-> 5] @@
  ("submit" :> 6) @@ ("settled" :> 7)

RankAt(p) == IF nLog[p].ev \in DOMAIN StepRank THEN StepRank[nLog[p].ev] ELSE 0

HasEv(ev, i) == \E p \in 1..Len(nLog) : nLog[p].ev = ev /\ nLog[p].i = i

\* every step before the Submit click was performed, for the record at hand
AllStepsPerformed ==
  /\ HasEv("hero", 1)
  /\ nPlay.Heroes[1].Hero # "Adam Warlock" => HasEv("aspect", 1)
  /\ HasEv("moreHeroes", 2)
  /\ (Len(nPlay.Heroes) > 1 /\ ~nPlay.Multiplayer) =>
       \A h \in 2..Len(nPlay.Heroes) : HasEv("hero", h) /\ HasEv("aspect", h)
  /\ HasEv("villain", 0)
  /\ nPlay.Villain # "Wrecking Crew" =>
       /\ \A m \in 1..Len(nPlay.Modular_Sets) :
            \E p \in 1..Len(nLog) : RankAt(p) = 4 /\ nLog[p].i = m
       /\ HasEv("standard", 0) /\ HasEv("expert", 0)
  /\ nPlay.Villain = "Wrecking Crew" => HasEv("wcDifficulty", 0)
  /\ HasEv("win", 0)

\* C29 (SpecNav): submitPlay returns true only when the last two things that
\* happened are the Submit click and the settling of the page; Submit is
\* clicked at most once, with no fault of the traversal and no page mismatch
\* before it, after every step of the hero and aspect pages, the scenario
\* page, the campaign page when shown, the modular sets page when the scenario
\* has one and the difficulty page was performed, in this order of pages.
C29_SubmitLastAndOnce ==
  /\ nResult = "true" =>
       /\ Len(nLog) >= 2
       /\ nLog[Len(nLog) - 1] = Ev("submit", 0, "")
       /\ nLog[Len(nLog)] = Ev("settled", 0, "")
  /\ Cardinality(NavEvents("submit")) <= 1
  /\ \A ps \in NavEvents("submit") :
       /\ \A p \in 1..(ps - 1) : nLog[p].ev \notin {"fault", "pageMismatch"}
       /\ \A p, q \in 1..ps :
            (p < q /\ RankAt(p) > 0 /\ RankAt(q) > 0) => RankAt(p) <= RankAt(q)
       /\ \A p, q \in 1..ps :
            (nLog[p].ev = "hero" /\ nLog[q].ev = "aspect") => (p < q <=> nLog[p].i <= nLog[q].i)
       /\ AllStepsPerformed

C29_Witness ==
  /\ nResult = "true"
  /\ Len(nPlay.Heroes) = 3
  /\ ~nPlay.Multiplayer
  /\ NavHas("campaign")
  /\ NavHas("navFault")
  /\ Len(nPlay.Modular_Sets) = 2

\* C30 (SpecNav): for the first hero the aspect step selects nothing when the
\* hero is Adam Warlock, the canonical dual label when the hero resolves to
\* Spider-Woman, and the aspect of the record otherwise; for the second to
\* fourth hero the aspect of the record is selected as it is, Adam Warlock and
\* Spider-Woman included.
C30_AspectBranches ==
  /\ \A p \in NavEvents("aspect") :
       IF nLog[p].i = 1
       THEN /\ nPlay.Heroes[1].Hero # "Adam Warlock"
            /\ nLog[p].label =
                 (IF nPlay.Heroes[1].Hero = "Spider Woman" THEN "Aggression and Justice"
                  ELSE nPlay.Heroes[1].Aspect)
       ELSE nLog[p].label = nPlay.Heroes[nLog[p].i].Aspect
  /\ \A h \in 1..FormHeroSlots :
       Cardinality({p \in NavEvents("aspect") : nLog[p].i = h}) <= 1
  /\ HasEv("moreHeroes", 2) => (HasEv("aspect", 1) <=> nPlay.Heroes[1].Hero # "Adam Warlock")
  /\ \A h \in 2..FormHeroSlots :
       (HasEv("hero", h) /\ (HasEv("hero", h + 1) \/ HasEv("villain", 0))) => HasEv("aspect", h)

C30_Witness ==
  /\ nResult = "true"
  /\ Len(nPlay.Heroes) = 3
  /\ nPlay.Heroes[1].Hero = "Spider Woman"
  /\ nPlay.Heroes[2].Hero = "Adam Warlock"
  /\ nPlay.Heroes[3].Hero = "Spider Woman"
  /\ \E p \in NavEvents("aspect") : nLog[p] = Ev("aspect", 1, "Aggression and Justice")
  /\ \E p \in NavEvents("aspect") : nLog[p] = Ev("aspect", 2, "Justice")
  /\ \E p \in NavEvents("aspect") : nLog[p] = Ev("aspect", 3, "Justice & aggression")

\* the positions at which a hero after the first was selected
ExtraHeroSelections == {p \in NavEvents("hero") : nLog[p].i >= 2}

\* C31 (SpecNav): when the loop over the further heroes runs, its iterations
\* select the heroes 2, 3, ... of the record in this order, one iteration per
\* hero, and once the scenario page is reached there were exactly
\* (number of heroes - 1) iterations, between 1 and 3; in each iteration the
\* question about a further hero, when the page shows it, is answered Yes
\* exactly when a further hero remains, and when the page does not show it the
\* iteration clicks Next and goes on without failing the record.
C31_ExtraHeroLoop ==
  /\ \A p \in ExtraHeroSelections :
       /\ nLog[p].i = 1 + Cardinality({q \in ExtraHeroSelections : q <= p})
       /\ nLog[p].i <= Len(nPlay.Heroes)
       /\ nLog[p].label = MappedHero(nPlay.Heroes[nLog[p].i].Hero)
  /\ (HasEv("villain", 0) /\ ExtraHeroSelections # {}) =>
       /\ Cardinality(ExtraHeroSelections) = Len(nPlay.Heroes) - 1
       /\ Cardinality(ExtraHeroSelections) \in 1..3
  /\ \A p \in NavEvents("aspect") :
       (nLog[p].i >= 2 /\ p < Len(nLog)) =>
         /\ nLog[p + 1].ev \in {"moreHeroes", "next", "fault"}
         /\ nLog[p + 1].ev = "moreHeroes" =>
              nLog[p + 1].label = (IF nLog[p].i < Len(nPlay.Heroes) THEN "Yes" ELSE "No")
         /\ (nLog[p + 1] = ClickNext /\ p + 1 = Len(nLog)) =>
              /\ nResult = "none"
              /\ npc = (IF nLog[p].i < Len(nPlay.Heroes) THEN "extraHero" ELSE "scenario")

C31_Witness ==
  /\ nResult = "true"
  /\ Len(nPlay.Heroes) = 4
  /\ Cardinality(ExtraHeroSelections) = 3
  /\ Ev("moreHeroes", 3, "Yes") \in {nLog[p] : p \in 1..Len(nLog)}
  /\ Ev("moreHeroes", 4, "Yes") \in {nLog[p] : p \in 1..Len(nLog)}
  /\ ~(Ev("moreHeroes", 4, "No") \in {nLog[p] : p \in 1..Len(nLog)})

\* what can follow the page advance of the scenario page when the campaign
\* question is not shown: the first interaction of the modular sets page or of
\* the difficulty page, or the page mismatch
AfterCampaignEvents == ModularEvents \cup {"pageMismatch", "win"}

\* C32 (SpecNav): the campaign question is answered only right after the page
\* advance of the scenario page, at most once, always with No, and the answer
\* is followed by one page advance; when the question is not shown, what
\* follows the page advance of the scenario page is the next step itself, with
\* no fault and no further page advance in between.
C32_CampaignByPresence ==
  /\ Cardinality(NavEvents("campaign")) <= 1
  /\ \A c \in NavEvents("campaign") :
       /\ nLog[c].label = "No"
       /\ c > 2 /\ nLog[c - 2].ev = "villain" /\ nLog[c - 1] = ClickNext
       /\ c < Len(nLog) => nLog[c + 1].ev \in {"next", "fault"}
       /\ (c + 1 < Len(nLog) /\ nLog[c + 1] = ClickNext) =>
            nLog[c + 2].ev \in AfterCampaignEvents \cup {"fault"}
       /\ (c = Len(nLog) - 1 /\ nLog[c + 1] = ClickNext) =>
            (nResult = "none" /\ npc \in {"modularCheck", "modularSelect", "difficulty"})
  /\ \A v \in NavEvents("villain") :
       (v + 1 < Len(nLog) /\ nLog[v + 1] = ClickNext /\ nLog[v + 2].ev # "campaign") =>
         nLog[v + 2].ev \in AfterCampaignEvents \cup {"fault"}

C32_Witness ==
  /\ nResult = "true"
  /\ isWreckingCrew(nPlay)
  /\ NavHas("campaign")

\* C33 (SpecNav): the modular sets page (check for its checkboxes, selections,
\* page advance) is gone through exactly for the scenarios outside
\* SCENARIOS_WITHOUT_MODULAR_PAGE: for Wrecking Crew nothing of it ever
\* happens and the difficulty page directly follows the page advance of the
\* scenario or campaign page; for every other scenario the difficulty page is
\* reached only through the page advance that follows the modular sets.
C33_ModularPageIffNotException ==
  /\ nPlay.Villain = "Wrecking Crew" =>
       /\ npc \notin {"modularCheck", "modularSelect", "modularNext"}
       /\ ModularAttempts = {}
       /\ ~NavHas("pageMismatch")
       /\ \A w \in NavEvents("win") :
            nLog[w - 1] = ClickNext /\ nLog[w - 2].ev \in {"villain", "campaign"}
  /\ nPlay.Villain # "Wrecking Crew" =>
       /\ \A w \in NavEvents("win") :
            /\ nLog[w - 1] = ClickNext
            /\ nLog[w - 2].ev \in ModularEvents
            /\ Cardinality(ModularAttempts) = Len(nPlay.Modular_Sets)
       /\ (\E v \in NavEvents("villain") :
             \E q \in (v + 1)..Len(nLog) : nLog[q].ev \notin {"next", "campaign", "fault"})
            => (ModularAttempts # {} \/ NavHas("pageMismatch"))

C33_Witness ==
  /\ nResult = "true"
  /\ nPlay.Villain = "Wrecking Crew"
  /\ NavHas("wcDifficulty")
  /\ ModularAttempts = {}

\* the difficulty code of the record holds an expert marker
HasExpertMarker == \E k \in 1..Len(Chars[nPlay.Difficulty]) : Chars[nPlay.Difficulty][k] = "E"

\* C34 (SpecNav): for Wrecking Crew at most one of the two version tiers is
\* selected, and once the difficulty page is done exactly one: the expert one
\* exactly when the difficulty code holds an expert marker, the standard one
\* otherwise; the heroic tier 1 is selected, after the version tier, exactly
\* when the code is Heroic; no standard-set or expert-set selection is made.
C34_WreckingCrewDifficulty ==
  nPlay.Villain = "Wrecking Crew" =>
    /\ ~NavHas("standard") /\ ~NavHas("expert")
    /\ Cardinality(NavEvents("wcDifficulty")) <= 1
    /\ \A p \in NavEvents("wcDifficulty") :
         /\ nLog[p].label = (IF HasExpertMarker THEN "Expert (version-B Villains)"
                             ELSE "Standard (version-A Villains)")
         /\ nLog[p - 1].ev = "win"
    /\ \A p \in NavEvents("heroic") :
         /\ nPlay.Difficulty = "Heroic"
         /\ nLog[p].label = "1"
         /\ nLog[p - 1].ev = "wcDifficulty"
    /\ NavHas("submit") =>
         /\ Cardinality(NavEvents("wcDifficulty")) = 1
         /\ Cardinality(NavEvents("heroic")) = (IF nPlay.Difficulty = "Heroic" THEN 1 ELSE 0)

C34_Witness ==
  /\ nResult = "true"
  /\ nPlay.Villain = "Wrecking Crew"
  /\ nPlay.Difficulty = "S2E2"
  /\ Ev("wcDifficulty", 0, "Expert (version-B Villains)") \in {nLog[p] : p \in 1..Len(nLog)}

\* the attempts made on record r, by any session
AttemptsOn(r) ==
  UNION {{<<s, p>> : p \in {q \in AttemptPositions(sess[s].log) : sess[s].log[q][2] = r}} :
           s \in DOMAIN sess}

\* C35 (SpecPar): under every interleaving of the sessions, every outcome of
\* the records and every recovery, each surviving record is attempted at most
\* once in the whole batch, hence by at most one session.
C35_NoRecordAttemptedTwice ==
  \A k \in 1..Len(plays) : Cardinality(AttemptsOn(plays[k])) <= 1

C35_Witness ==
  /\ Len(plays) = MaxPlays
  /\ \A k \in 1..Len(plays) : Cardinality(AttemptsOn(plays[k])) = 1
  /\ Len(sess) >= 2
  /\ \E s \in DOMAIN sess : CountAttempts(sess[s].log, FALSE) >= 1

\* C36 (SpecPar): whenever the final summary is printed, its total of plays
\* processed is the sum of its successful and its failed count, also when a
\* session stopped before the end of its chunk.
C36_TotalIsSuccessPlusFailed ==
  ppc = "done" => summary.processed = summary.success + summary.failed

\* C37 (SpecPar): when processPlaysInParallel has returned or thrown, every
\* browser it launched has been closed, also when the initialization of a
\* later worker failed or a session's processPlaysChunk threw.
C37_BrowsersClosedAtEnd ==
  ppc \in {"noplays", "done", "initFailed", "joinRejected", "exited"} =>
    \A k \in DOMAIN browsers : browsers[k] = "closed"

\* in processPlaysInParallel every chunk has an initialized worker at its index
ChunkIndexHasWorker ==
  ppc = "running" => (Len(chunks) <= Len(workers) /\ \A k \in DOMAIN chunks : chunks[k] # <<>>)

\* C38 (SpecChunk): for a non-empty array and a positive chunk count w,
\* chunkArray returns at least one and at most w chunks, none of them empty.
C38_NoEmptyChunkAtMostW ==
  (cpc = "done" /\ cArray # <<>> /\ cNum >= 1) =>
    /\ ~cResult.threw
    /\ Len(cResult.chunks) \in 1..cNum
    /\ \A k \in 1..Len(cResult.chunks) : Len(cResult.chunks[k]) >= 1

C38_Witness ==
  /\ cpc = "done"
  /\ Len(cArray) = 7
  /\ cNum = 4
  /\ Len(cResult.chunks) = 4
  /\ Len(cResult.chunks[4]) = 1

\* the three rejection rules, each taken on its own
MatchesAspectRule(play) == \E h \in 1..Len(play.Heroes) : play.Heroes[h].Aspect = "Basic"

MatchesModularRule(play) == play.Modular_Sets = <<>> /\ play.Villain # "Wrecking Crew"

MatchesDateRule(play, start) == start # NoDate /\ ~OnOrAfter(play.Date, start)

RulesMatched(play, start) ==
  (IF MatchesAspectRule(play) THEN 1 ELSE 0) + (IF MatchesModularRule(play) THEN 1 ELSE 0)
    + (IF MatchesDateRule(play, start) THEN 1 ELSE 0)

\* C39 (SpecFilter): each rejection counter is the number of input records
\* whose first failed rule, in the order aspect, empty modular list, date, is
\* the counter's rule; a record that matches several rules is counted once.
C39_CountedByFirstRuleOnly ==
  fpc = "done" =>
    /\ fOut.stats.skippedBasicAspect =
         Cardinality({i \in 1..Len(fInput) : MatchesAspectRule(fInput[i])})
    /\ fOut.stats.skippedEmptyModular =
         Cardinality({i \in 1..Len(fInput) :
                        ~MatchesAspectRule(fInput[i]) /\ MatchesModularRule(fInput[i])})
    /\ fOut.stats.skippedBeforeDate =
         Cardinality({i \in 1..Len(fInput) :
                        /\ ~MatchesAspectRule(fInput[i])
                        /\ ~MatchesModularRule(fInput[i])
                        /\ MatchesDateRule(fInput[i], fStart)})

C39_Witness ==
  /\ fpc = "done"
  /\ \E i \in 1..Len(fInput) : RulesMatched(fInput[i], fStart) = 3
  /\ \E i \in 1..Len(fInput) :
       ~MatchesAspectRule(fInput[i]) /\ MatchesModularRule(fInput[i])
         /\ MatchesDateRule(fInput[i], fStart)
  /\ fOut.stats.skippedEmptyModular
       < Cardinality({i \in 1..Len(fInput) : MatchesModularRule(fInput[i])})
  /\ fOut.stats.skippedBeforeDate
       < Cardinality({i \in 1..Len(fInput) : MatchesDateRule(fInput[i], fStart)})

\* C40 (SpecFilter): after filterPlays has returned, the caller's array holds
\* the same records in the same order as before the call.
C40_InputArrayUnchanged ==
  FilterReturned => (fAll = fInput /\ fOut.allPlays = fInput)

C40_Witness ==
  /\ fpc = "done"
  /\ fStart # NoDate
  /\ Len(fOut.playsToProcess) = Len(fInput)
  /\ fOut.playsToProcess # fInput
  /\ fAll = fInput
====
